---- MODULE Spec2Model ----
(***************************************************************************)
(* Model of the VTU ECU simulator (ecu_sim.c): the vehicle simulation,     *)
(* the signal encoders, the broadcast scheduler of main() and the OBD-II   *)
(* Mode 01 request handler.                                                *)
(*                                                                         *)
(* Number representation.  The C code computes in IEEE-754 binary32, one   *)
(* rounding per operation.                                                 *)
(*  - every float (the float fields of vehicle, sim_time included) is held *)
(*    as its signed pattern: the 32-bit pattern of |x| read as an integer, *)
(*    negated when x < 0.  800.0f is 1145569280 = 0x44480000.              *)
(*  - FloatAdd, FloatSub, FloatMul, FloatDiv, fmodf and the casts are the  *)
(*    binary32 operations, bit for bit, on zero and the normal numbers.    *)
(*  - sinf evaluates the argument reduction and the polynomials of glibc   *)
(*    2.36 (flt-32/s_sinf.c) in binary64 with fused multiply-add, as the   *)
(*    libm of the image computes them, and rounds to binary32.             *)
(***************************************************************************)
EXTENDS Integers, Sequences, FiniteSets, TLC

\* ------------------------------------------------------------------------
\* Bounds of the model (not program constants)
\* ------------------------------------------------------------------------
MaxLoopMs == 3
    \* main loop: no new iteration once sim_time has reached this many ms
MaxSimMs == 62000
    \* the first stretch of the run: ticks until sim_time reaches this many ms
MaxClock == 240
    \* the monotonic clock is not advanced past this many ms
MaxLateClock == 50301810
    \* late in a long run: no new iteration once the clock has reached this
    \* many ms (10 iterations of 2 ms after the tick that reaches 32768.0f)
MaxRefillMs == 5002000
    \* around the first refill: ticks until sim_time reaches this many ms
MaxQueuedMs == 50
    \* the run of the main loop: a request already queued when
    \* can_receive is called is taken during the first MaxQueuedMs ms; a run
    \* that is then ahead of 2 ms per iteration is not followed further

\* ------------------------------------------------------------------------
\* Program constants
\* ------------------------------------------------------------------------
ENGINE_CYCLE_MS == 10
ENGINE2_CYCLE_MS == 100
TRANS_CYCLE_MS == 50
BCM_CYCLE_MS == 100

CAN_ID_ENGINE_DATA_1 == 256
CAN_ID_ENGINE_DATA_2 == 257
CAN_ID_TRANS_DATA == 512
CAN_ID_BCM_DATA == 768
CAN_ID_OBD_BROADCAST == 2015
CAN_ID_OBD_ECU_ENGINE == 2016
CAN_ID_OBD_RESP_ENGINE == 2024

OBD2_MODE_CURRENT_DATA == 1
OBD2_RESPONSE_OFFSET == 64
OBD2_PID_SUPPORTED_01_20 == 0
OBD2_PID_ENGINE_LOAD == 4
OBD2_PID_COOLANT_TEMP == 5
OBD2_PID_ENGINE_RPM == 12
OBD2_PID_VEHICLE_SPEED == 13
OBD2_PID_INTAKE_TEMP == 15
OBD2_PID_MAF == 16
OBD2_PID_THROTTLE_POS == 17
OBD2_PID_SUPPORTED_21_40 == 32
OBD2_PID_FUEL_LEVEL == 47

\* ------------------------------------------------------------------------
\* Numeric helpers
\* ------------------------------------------------------------------------
Pow2(n) == 2 ^ n

Abs(x) == IF x < 0 THEN -x ELSE x
Sgn(x) == IF x < 0 THEN -1 ELSE 1

\* ------------------------------------------------------------------------
\* IEEE-754 binary32 arithmetic (round to nearest, ties to even)
\*
\* A float is held as its signed pattern: the 32-bit pattern of |x| as an
\* integer, negated when x < 0.  Signed patterns are ordered as the floats
\* they stand for.  The operators cover zero and the normal numbers.
\* ------------------------------------------------------------------------
\* biased exponent and 24-bit significand: |x| = FloatMant * 2^(FloatExp - 150)
FloatExp(x) == IF Abs(x) < 8388608 THEN 1 ELSE Abs(x) \div 8388608
FloatMant(x) == IF Abs(x) < 8388608 THEN Abs(x) ELSE 8388608 + (Abs(x) % 8388608)

\* sig rounded up when the discarded part is above one half, or is one half
\* and sig is odd
RoundNE(sig, above, tie) == IF above \/ (tie /\ sig % 2 = 1) THEN sig + 1 ELSE sig

\* pattern of sig * 2^(e - 150), 2^23 <= sig <= 2^24
Pack(e, sig) == (e - 1) * 8388608 + sig

\* x * y
FloatMul(x, y) ==
    IF x = 0 \/ y = 0 THEN 0
    ELSE
      LET m1 == FloatMant(x)
          m2 == FloatMant(y)
          h1 == m1 \div 4096
          l1 == m1 % 4096
          h2 == m2 \div 4096
          l2 == m2 % 4096
          mid == h1 * l2 + l1 * h2
          low == (mid % 4096) * 4096 + l1 * l2
          hi == h1 * h2 + mid \div 4096 + low \div 16777216
          lo == low % 16777216
          e == FloatExp(x) + FloatExp(y) - 127
      IN Sgn(x) * Sgn(y) *
         (IF hi >= 8388608
          THEN Pack(e + 1, RoundNE(hi, lo > 8388608, lo = 8388608))
          ELSE Pack(e, RoundNE(hi * 2 + lo \div 8388608,
                               lo % 8388608 > 4194304, lo % 8388608 = 4194304)))

\* seven more bits of the quotient q with remainder r of a division by m
DivStep(s) == [q |-> s.q * 128 + (s.r * 128) \div s.m, r |-> (s.r * 128) % s.m, m |-> s.m]

\* x / y, y # 0
FloatDiv(x, y) ==
    IF x = 0 THEN 0
    ELSE
      LET m1 == FloatMant(x)
          m2 == FloatMant(y)
          s == DivStep(DivStep(DivStep(DivStep([q |-> m1 \div m2, r |-> m1 % m2, m |-> m2]))))
          q == s.q
          st == s.r # 0
          e == FloatExp(x) - FloatExp(y) + 127
      IN Sgn(x) * Sgn(y) *
         (IF q >= 268435456
          THEN Pack(e, RoundNE(q \div 32, q % 32 > 16 \/ (q % 32 = 16 /\ st),
                               q % 32 = 16 /\ ~st))
          ELSE Pack(e - 1, RoundNE(q \div 16, q % 16 > 8 \/ (q % 16 = 8 /\ st),
                                   q % 16 = 8 /\ ~st)))

\* m * 8 shifted right by d bits, the bits shifted out or-ed into bit 0
ShiftSticky(m, d) ==
    IF d > 27 THEN (IF m # 0 THEN 1 ELSE 0)
    ELSE LET v == m * 8
             q == v \div Pow2(d)
         IN IF q % 2 = 0 /\ v % Pow2(d) # 0 THEN q + 1 ELSE q

\* v * 2^(e - 153) shifted left until bit 26 is set
RECURSIVE Normalize(_, _)
Normalize(e, v) ==
    IF v >= 67108864 \/ e <= 1 THEN [e |-> e, v |-> v] ELSE Normalize(e - 1, v * 2)

\* x + y for patterns x >= y >= 0
AddMag(x, y) ==
    LET v == FloatMant(x) * 8 + ShiftSticky(FloatMant(y), FloatExp(x) - FloatExp(y))
        w == IF v >= 134217728
             THEN v \div 2 + (IF v % 2 = 1 /\ (v \div 2) % 2 = 0 THEN 1 ELSE 0)
             ELSE v
        e == IF v >= 134217728 THEN FloatExp(x) + 1 ELSE FloatExp(x)
    IN Pack(e, RoundNE(w \div 8, w % 8 > 4, w % 8 = 4))

\* x - y for patterns x >= y >= 0
SubMag(x, y) ==
    IF x = y THEN 0
    ELSE LET n == Normalize(FloatExp(x),
                            FloatMant(x) * 8
                              - ShiftSticky(FloatMant(y), FloatExp(x) - FloatExp(y)))
         IN Pack(n.e, RoundNE(n.v \div 8, n.v % 8 > 4, n.v % 8 = 4))

\* x + y
FloatAdd(x, y) ==
    LET big == IF Abs(x) >= Abs(y) THEN x ELSE y
        small == IF Abs(x) >= Abs(y) THEN y ELSE x
    IN IF Sgn(x) = Sgn(y)
       THEN Sgn(big) * AddMag(Abs(big), Abs(small))
       ELSE Sgn(big) * SubMag(Abs(big), Abs(small))

\* x - y
FloatSub(x, y) == FloatAdd(x, -y)

\* pattern of the exact value m * 2^(e - 150), m < 2^24
RECURSIVE NormExact(_, _)
NormExact(e, m) ==
    IF m = 0 THEN 0
    ELSE IF m >= 8388608 \/ e <= 1 THEN Pack(e, m)
    ELSE NormExact(e - 1, m * 2)

\* (r * 2^d) mod m
RECURSIVE FmodSteps(_, _, _)
FmodSteps(r, m, d) == IF d = 0 THEN r ELSE FmodSteps((r * 2) % m, m, d - 1)

\* fmodf(x, y) for x >= 0, y > 0: exact
fmodf(x, y) ==
    IF x < y THEN x
    ELSE NormExact(FloatExp(y),
                   FmodSteps(FloatMant(x) % FloatMant(y), FloatMant(y),
                             FloatExp(x) - FloatExp(y)))

\* (int)x: the integer part, toward zero, |x| < 2^31
FloatTrunc(x) ==
    LET e == FloatExp(x)
    IN IF e >= 150 THEN Sgn(x) * FloatMant(x) * Pow2(e - 150)
       ELSE IF e <= 126 THEN 0
       ELSE Sgn(x) * (FloatMant(x) \div Pow2(150 - e))

\* (float)n, |n| < 2^24: exact
FloatOfInt(n) == Sgn(n) * NormExact(150, Abs(n))

\* the float literal n/d, the binary32 nearest to it: FloatLit(8, 10) is 0.8f
FloatLit(n, d) == FloatDiv(FloatOfInt(n), FloatOfInt(d))

\* floor(sim_time * 1000): the simulated time in whole milliseconds
SimTimeMs(x) ==
    IF 147 - FloatExp(x) > 30 THEN 0
    ELSE (FloatMant(x) * 125) \div Pow2(147 - FloatExp(x))

\* Outcomes of a float -> unsigned conversion whose truncated value does not
\* fit the target type (undefined behaviour in C): the low bits of the 32-bit
\* integer conversion ("wrap", 0 when that conversion overflows too) or the
\* nearest representable value ("sat").
ConvKinds == {"wrap", "sat"}

CastUnsigned(x, maxv, u) ==
    IF Abs(x) >= 1325400064   \* |x| >= 2^31
    THEN (IF u = "sat" /\ x > 0 THEN maxv ELSE 0)
    ELSE LET t == FloatTrunc(x) IN
         IF t >= 0 /\ t <= maxv THEN t
         ELSE IF u = "wrap" THEN t % (maxv + 1)
         ELSE IF t < 0 THEN 0 ELSE maxv

\* (uint8_t)x
CastU8(x, u) == CastUnsigned(x, 255, u)

\* (uint16_t)x
CastU16(x, u) == CastUnsigned(x, 65535, u)

\* ------------------------------------------------------------------------
\* sinf (glibc 2.36, sysdeps/ieee754/flt-32/s_sinf.c), for x >= 0
\*
\* glibc evaluates in binary64: the argument is reduced to r = x - n * pi/2
\* with |r| <= pi/4 and sin(r) or cos(r) is a fixed polynomial in r; the
\* result is rounded to binary32.  The build runs the variant compiled with
\* fused multiply-add (__sinf_fma), so a product that feeds a sum is not
\* rounded on its own.  A binary64 number is [s, e, h, l], standing for
\* s * (h * 2^28 + l) * 2^e with 2^24 <= h < 2^25 (53 significant bits), or
\* h = l = 0 for zero; an unrounded integer is six words of 28 bits, lowest
\* first.
\* ------------------------------------------------------------------------
Dbl(ss, ee, hh, ll) == [s |-> ss, e |-> ee, h |-> hh, l |-> ll]

\* the constants of __sincosf_table[0] and of the reductions
SinCoeff == [ s1 |-> Dbl(-1, -55, 22369605, 160802307),  \* -0x1.555545995a603p-3
              s2 |-> Dbl(1, -59, 17893216, 86182852),    \* 0x1.1107605230bc4p-7
              s3 |-> Dbl(-1, -65, 26824371, 125095716),  \* -0x1.994eb3774cf24p-13
              c0 |-> Dbl(1, -52, 16777216, 0),           \* 1.0
              c1 |-> Dbl(-1, -54, 33554431, 218915356),  \* -0x1.ffffffd0c621cp-2
              c2 |-> Dbl(1, -57, 22369598, 17207065),    \* 0x1.55553e1068f19p-5
              c3 |-> Dbl(-1, -62, 23857278, 144323997),  \* -0x1.6c087e89a359dp-10
              c4 |-> Dbl(1, -68, 26817584, 41679043),    \* 0x1.99343027bf8c3p-16
              \* 0x1.921FB54442D18p0, the binary64 nearest pi/2
              hpi |-> Dbl(1, -52, 26353589, 71576856),
              \* 0x1.45F306DC9C883p+23, the binary64 nearest 2^24 * 2/pi
              hpi_inv |-> Dbl(1, -29, 21361414, 231327875),
              \* 0x1.921FB54442D18p-62, pi / 2^64
              pi63 |-> Dbl(1, -114, 26353589, 71576856) ]

\* __inv_pio4: the bits of 4/pi, one byte per entry, highest first, after
\* three zero bytes
FourOverPi ==
    << 0, 0, 0, 162, 249, 131, 110, 78, 68, 21, 41, 252, 39, 87, 209, 245, 52,
       221, 192, 219, 98, 149, 153, 60, 67, 144, 65 >>

\* number of bits of n: by bisection below 2^28, word by word above
RECURSIVE BitLen(_)
BitLen(n) ==
    IF n >= 268435456 THEN 28 + BitLen(n \div 268435456)
    ELSE IF n >= 8192
         THEN IF n >= 1048576
              THEN IF n >= 16777216
                   THEN IF n >= 67108864
                        THEN IF n >= 134217728
                             THEN 28
                             ELSE 27
                        ELSE IF n >= 33554432
                             THEN 26
                             ELSE 25
                   ELSE IF n >= 4194304
                        THEN IF n >= 8388608
                             THEN 24
                             ELSE 23
                        ELSE IF n >= 2097152
                             THEN 22
                             ELSE 21
              ELSE IF n >= 65536
                   THEN IF n >= 262144
                        THEN IF n >= 524288
                             THEN 20
                             ELSE 19
                        ELSE IF n >= 131072
                             THEN 18
                             ELSE 17
                   ELSE IF n >= 16384
                        THEN IF n >= 32768
                             THEN 16
                             ELSE 15
                        ELSE 14
         ELSE IF n >= 64
              THEN IF n >= 512
                   THEN IF n >= 2048
                        THEN IF n >= 4096
                             THEN 13
                             ELSE 12
                        ELSE IF n >= 1024
                             THEN 11
                             ELSE 10
                   ELSE IF n >= 128
                        THEN IF n >= 256
                             THEN 9
                             ELSE 8
                        ELSE 7
              ELSE IF n >= 4
                   THEN IF n >= 16
                        THEN IF n >= 32
                             THEN 6
                             ELSE 5
                        ELSE IF n >= 8
                             THEN 4
                             ELSE 3
                   ELSE IF n >= 1
                        THEN IF n >= 2
                             THEN 2
                             ELSE 1
                        ELSE 0

\* word i of S, 0 outside the six words
Word(S, i) == IF i >= 1 /\ i <= 6 THEN S[i] ELSE 0

\* index of the highest non-zero word of S, or 0
TopWord(S) ==
    IF S[6] # 0 THEN 6
    ELSE IF S[5] # 0 THEN 5
    ELSE IF S[4] # 0 THEN 4
    ELSE IF S[3] # 0 THEN 3
    ELSE IF S[2] # 0 THEN 2
    ELSE IF S[1] # 0 THEN 1
    ELSE 0

\* the words 1..i of S are all zero
RECURSIVE LowZero(_, _)
LowZero(S, i) == i < 1 \/ (Word(S, i) = 0 /\ LowZero(S, i - 1))

\* the binary64 nearest s * S * 2^e (ties to even): S keeps its 53 leading
\* bits, the bit below them is the guard and the rest is sticky
RoundWords(s, e, S) ==
    LET \* t the highest non-zero word; S is cut sh bits from below, or, when
        \* it has at most 53 bits, shifted left by -sh bits, exactly
        Place(t, sh) ==
            IF t = 0 THEN Dbl(1, 0, 0, 0)
            ELSE IF sh <= -28 THEN Dbl(s, e + sh, S[1] * Pow2((-sh) % 28), 0)
            ELSE IF sh <= 0
            THEN Dbl(s, e + sh, S[2] * Pow2(-sh) + S[1] \div Pow2(28 + sh),
                     (S[1] % Pow2(28 + sh)) * Pow2(-sh))
            ELSE LET q == sh \div 28
                     r == sh % 28
                     w0 == Word(S, q)
                     w1 == Word(S, q + 1)
                     w2 == Word(S, q + 2)
                     ml == w1 \div Pow2(r) + (w2 % Pow2(r)) * Pow2(28 - r)
                     mh == w2 \div Pow2(r) + (Word(S, q + 3) % Pow2(r)) * Pow2(28 - r)
                     guard == IF r >= 1 THEN (w1 \div Pow2(r - 1)) % 2 = 1
                              ELSE w0 \div 134217728 = 1
                     sticky == IF r >= 1 THEN w1 % Pow2(r - 1) # 0 \/ ~LowZero(S, q)
                               ELSE w0 % 134217728 # 0 \/ ~LowZero(S, q - 1)
                     l2 == IF guard /\ (ml % 2 = 1 \/ sticky) THEN ml + 1 ELSE ml
                 IN IF l2 < 268435456 THEN Dbl(s, e + sh, mh, l2)
                    ELSE IF mh = 33554431 THEN Dbl(s, e + sh + 1, 16777216, 0)
                    ELSE Dbl(s, e + sh, mh + 1, 0)
        Top(t) == Place(t, 28 * (t - 1) + BitLen(Word(S, t)) - 53)
    IN Top(TopWord(S))

\* the exact product of the significands of x and y, from their 14-bit
\* limbs: c0..c6 are the column sums with the carries
MulWords(x, y) ==
    LET x0 == x.l % 16384
        x1 == x.l \div 16384
        x2 == x.h % 16384
        x3 == x.h \div 16384
        y0 == y.l % 16384
        y1 == y.l \div 16384
        y2 == y.h % 16384
        y3 == y.h \div 16384
        c0 == x0 * y0
        c1 == x1 * y0 + x0 * y1 + c0 \div 16384
        c2 == x2 * y0 + x1 * y1 + x0 * y2 + c1 \div 16384
        c3 == x3 * y0 + x2 * y1 + x1 * y2 + x0 * y3 + c2 \div 16384
        c4 == x3 * y1 + x2 * y2 + x1 * y3 + c3 \div 16384
        c5 == x3 * y2 + x2 * y3 + c4 \div 16384
        c6 == x3 * y3 + c5 \div 16384
    IN << (c1 % 16384) * 16384 + (c0 % 16384), (c3 % 16384) * 16384 + (c2 % 16384),
          (c5 % 16384) * 16384 + (c4 % 16384), c6, 0, 0 >>

\* x * y in binary64
Mul64(x, y) == RoundWords(x.s * y.s, x.e + y.e, MulWords(x, y))

\* S * 2^d, 0 <= d, within the six words
ShiftLeft(S, d) ==
    LET q == d \div 28
        lo == Pow2(28 - (d % 28))
        hi == Pow2(d % 28)
        Part(i) == (Word(S, i - q) % lo) * hi + Word(S, i - q - 1) \div lo
    IN << Part(1), Part(2), Part(3), Part(4), Part(5), Part(6) >>

\* the sign of A - B, comparing the words i, i - 1, ..
RECURSIVE SignOf(_, _, _)
SignOf(A, B, i) ==
    IF i = 0 THEN 0
    ELSE IF A[i] # B[i] THEN (IF A[i] > B[i] THEN 1 ELSE -1)
    ELSE SignOf(A, B, i - 1)

\* the six words of f * A + g * B, which is not negative
Carry(A, B, f, g) ==
    LET t1 == f * A[1] + g * B[1]
        t2 == f * A[2] + g * B[2] + t1 \div 268435456
        t3 == f * A[3] + g * B[3] + t2 \div 268435456
        t4 == f * A[4] + g * B[4] + t3 \div 268435456
        t5 == f * A[5] + g * B[5] + t4 \div 268435456
        t6 == f * A[6] + g * B[6] + t5 \div 268435456
    IN << t1 % 268435456, t2 % 268435456, t3 % 268435456, t4 % 268435456,
          t5 % 268435456, t6 % 268435456 >>

\* the product p * 2^ep and the addend z of a fused multiply-add aligned to
\* one exponent e, d = z.e - ep: A and B are their words.  An operand more
\* than a rounding's reach below the other one is replaced by a sticky bit.
Align(ep, d, p, z) ==
    IF d > 110
    THEN [e |-> z.e - 3, A |-> << 1, 0, 0, 0, 0, 0 >>,
          B |-> ShiftLeft(<< z.l, z.h, 0, 0, 0, 0 >>, 3)]
    ELSE IF d >= 0
    THEN [e |-> ep, A |-> p, B |-> ShiftLeft(<< z.l, z.h, 0, 0, 0, 0 >>, d)]
    ELSE IF d >= -56
    THEN [e |-> z.e, A |-> ShiftLeft(p, -d), B |-> << z.l, z.h, 0, 0, 0, 0 >>]
    ELSE [e |-> ep - 3, A |-> ShiftLeft(p, 3), B |-> << 1, 0, 0, 0, 0, 0 >>]

\* the binary64 nearest (sp * a.A + sz * a.B) * 2^a.e
Sum(sp, sz, a) ==
    LET g == IF sp = sz THEN 1 ELSE SignOf(a.A, a.B, 6)
    IN RoundWords(IF g >= 0 THEN sp ELSE sz, a.e,
                  Carry(a.A, a.B, g, IF sp = sz THEN 1 ELSE -g))

\* fma(x, y, z) in binary64: x * y + z rounded once
Fma64(x, y, z) ==
    IF x.h = 0 \/ y.h = 0 THEN z
    ELSE IF z.h = 0 THEN Mul64(x, y)
    ELSE Sum(x.s * y.s, z.s,
             Align(x.e + y.e, z.e - (x.e + y.e), MulWords(x, y), z))

\* (double)x for the binary32 x: exact
DoubleOf(x) == Dbl(Sgn(x), FloatExp(x) - 179, 2 * FloatMant(x), 0)

\* (double)(s * n) for the integer n, 0 <= n < 2^28: exact
DoubleOfInt(s, n) == RoundWords(s, 0, << n, 0, 0, 0, 0, 0 >>)

\* (float)v: the binary32 nearest v (ties to even), v normal in binary32
FloatOf(v) ==
    v.s * Pack(v.e + 179, RoundNE(v.h \div 2, v.h % 2 = 1 /\ v.l # 0,
                                  v.h % 2 = 1 /\ v.l = 0))

\* (int32_t)v, 0 <= v < 2^31
IntOf(v) ==
    IF v.h = 0 \/ -v.e >= 53 THEN 0
    ELSE IF -v.e >= 28 THEN v.h \div Pow2(-v.e - 28)
    ELSE v.h * Pow2(28 + v.e) + v.l \div Pow2(-v.e)

\* -v
Neg(v) == [v EXCEPT !.s = -v.s]

\* sinf_poly is straight-line code, each statement one product or one fused
\* multiply-add: the step << d, a, b, c >> is d = a * b + c, and c = zero
\* makes it the product.  n even:
\*   x3 = x * x2; s1 = p->s2 + x2 * p->s3; x7 = x3 * x2;
\*   s = x + x3 * p->s1; return s + x7 * s1
\* The first step is the x * x of the call.
SinSteps ==
    << << "x2", "x", "x", "zero" >>, << "x3", "x", "x2", "zero" >>,
       << "s1", "x2", "ps3", "ps2" >>, << "x7", "x3", "x2", "zero" >>,
       << "s", "x3", "ps1", "x" >>, << "ret", "x7", "s1", "s" >> >>

\* n odd:
\*   x4 = x2 * x2; c2 = p->c3 + x2 * p->c4; c1 = p->c0 + x2 * p->c1;
\*   x6 = x4 * x2; c = c1 + x4 * p->c2; return c + x6 * c2
CosSteps ==
    << << "x2", "x", "x", "zero" >>, << "x4", "x2", "x2", "zero" >>,
       << "c2", "x2", "pc4", "pc3" >>, << "c1", "x2", "pc1", "pc0" >>,
       << "x6", "x4", "x2", "zero" >>, << "c", "x4", "pc2", "c1" >>,
       << "ret", "x6", "c2", "c" >> >>

\* the values v after the steps
RECURSIVE Eval(_, _)
Eval(v, steps) ==
    IF steps = << >> THEN v
    ELSE Eval([v EXCEPT ![Head(steps)[1]] =
                   Fma64(v[Head(steps)[2]], v[Head(steps)[3]], v[Head(steps)[4]])],
              Tail(steps))

\* sinf_poly(x * s, x * x, p, n) for x = red.r and n = red.n, with
\* s = __sincosf_table[0].sign[n & 3] = 1, -1, -1, 1 and, when n & 2,
\* p = &__sincosf_table[1], whose c coefficients are negated
Poly(red) ==
    LET Zero == Dbl(1, 0, 0, 0)
        C(c) == IF red.n % 4 >= 2 THEN Neg(c) ELSE c
    IN FloatOf(Eval([ zero |-> Zero,
                      x |-> IF red.n % 4 \in {1, 2} THEN Neg(red.r) ELSE red.r,
                      ps1 |-> SinCoeff.s1, ps2 |-> SinCoeff.s2, ps3 |-> SinCoeff.s3,
                      pc0 |-> C(SinCoeff.c0), pc1 |-> C(SinCoeff.c1),
                      pc2 |-> C(SinCoeff.c2), pc3 |-> C(SinCoeff.c3),
                      pc4 |-> C(SinCoeff.c4),
                      x2 |-> Zero, x3 |-> Zero, x4 |-> Zero, x6 |-> Zero,
                      x7 |-> Zero, s |-> Zero, s1 |-> Zero, c |-> Zero,
                      c1 |-> Zero, c2 |-> Zero, ret |-> Zero ],
                    IF red.n % 2 = 0 THEN SinSteps ELSE CosSteps).ret)

\* reduce_fast, 0.75 <= x < 120: n = round(x * 2/pi), here by its argument,
\* and r = x - n * hpi
ReduceFastRest(x, n) ==
    [r |-> Fma64(DoubleOfInt(-1, n), SinCoeff.hpi, x), n |-> n]

ReduceFast(x) ==
    ReduceFastRest(x, (IntOf(Mul64(x, SinCoeff.hpi_inv)) + 8388608) \div 16777216)

\* the bytes k.. (from 0, lowest first) of the product of the four bytes a
\* and the twelve bytes FourOverPi[idx + 12 - j], j = 0..11, cut to twelve
\* bytes; c is carried into byte k
RECURSIVE ProductBytes(_, _, _, _)
ProductBytes(a, idx, k, c) ==
    IF k > 11 THEN << >>
    ELSE LET Term(i) == IF k - i >= 0 THEN a[i + 1] * FourOverPi[idx + 12 - (k - i)] ELSE 0
             Put(t) == << t % 256 >> \o ProductBytes(a, idx, k + 1, t \div 256)
         IN Put(c + Term(0) + Term(1) + Term(2) + Term(3))

\* the words of |w2 * 2^56 + w1 * 2^28 + w0|, 0 <= w0, w1 < 2^28
Magnitude(w0, w1, w2) ==
    IF w2 >= 0 THEN << w0, w1, w2, 0, 0, 0 >>
    ELSE IF w0 = 0 /\ w1 = 0 THEN << 0, 0, -w2, 0, 0, 0 >>
    ELSE IF w0 = 0 THEN << 0, 268435456 - w1, -w2 - 1, 0, 0, 0 >>
    ELSE << 268435456 - w0, 268435455 - w1, -w2 - 1, 0, 0, 0 >>

\* reduce_large from the twelve bytes t of x * 4/pi modulo 8: rnd is the
\* integer part rounded to the nearest quadrant, n = rnd & 3 and r = (the
\* rest, a signed 64-bit fraction) * pi63
ReduceLargeRest(t) ==
    LET rnd == (t[12] + 32) \div 64
    IN [ r |-> Mul64(RoundWords(IF t[12] - 64 * rnd >= 0 THEN 1 ELSE -1, 0,
                         Magnitude(t[5] + t[6] * 256 + t[7] * 65536 + (t[8] % 16) * 16777216,
                                   t[8] \div 16 + t[9] * 16 + t[10] * 4096 + t[11] * 1048576,
                                   t[12] - 64 * rnd)),
                     SinCoeff.pi63),
         n |-> rnd % 4 ]

\* reduce_large, 120 <= x < 2^23 (xp its pattern): the significand shifted
\* left by (exponent & 7), as four bytes, times the 96 bits of 4/pi that
\* matter
ReduceLarge(xp) ==
    LET lo == (FloatMant(xp) % 65536) * Pow2((xp \div 8388608) % 8)
        hi == (FloatMant(xp) \div 65536) * Pow2((xp \div 8388608) % 8)
    IN ReduceLargeRest(ProductBytes(<< (lo % 65536) % 256, (lo % 65536) \div 256,
                                       (hi + lo \div 65536) % 256,
                                       (hi + lo \div 65536) \div 256 >>,
                                    (xp \div 67108864) % 16, 0, 0))

\* sinf(x), 2^-12 <= x < 2^23; below 2^-12 the result is x
sinf(x) ==
    IF x < 964689920 THEN x                                           \* x < 2^-12
    ELSE Poly(IF x < 1061158912 THEN [r |-> DoubleOf(x), n |-> 0]     \* x < 0.75
              ELSE IF x < 1123024896 THEN ReduceFast(DoubleOf(x))     \* x < 120
              ELSE ReduceLarge(x))

\* ------------------------------------------------------------------------
\* Vehicle simulation (update_simulation)
\* ------------------------------------------------------------------------
\* the float literals of ecu_sim.c and can_defs.h
Lit == [ f0     |-> 0,            \* 0.0f
         f1     |-> 1065353216,   \* 1.0f
         f2     |-> 1073741824,   \* 2.0f
         f4     |-> 1082130432,   \* 4.0f
         f5     |-> 1084227584,   \* 5.0f
         f10    |-> 1092616192,   \* 10.0f
         f15    |-> 1097859072,   \* 15.0f
         f20    |-> 1101004800,   \* 20.0f
         f25    |-> 1103626240,   \* 25.0f
         f30    |-> 1106247680,   \* 30.0f
         f40    |-> 1109393408,   \* 40.0f
         f45    |-> 1110704128,   \* 45.0f
         f50    |-> 1112014848,   \* 50.0f
         f60    |-> 1114636288,   \* 60.0f
         f70    |-> 1116471296,   \* 70.0f
         f75    |-> 1117126656,   \* 75.0f
         f85    |-> 1118437376,   \* 85.0f
         f100   |-> 1120403456,   \* 100.0f
         f120   |-> 1123024896,   \* 120.0f
         f200   |-> 1128792064,   \* 200.0f
         f255   |-> 1132396544,   \* 255.0f
         f800   |-> 1145569280,   \* 800.0f
         f1000  |-> 1148846080,   \* 1000.0f
         f1700  |-> 1154777088,   \* 1700.0f
         f2500  |-> 1159479296,   \* 2500.0f
         f3600  |-> 1163984896,   \* 3600.0f
         f4200  |-> 1166229504,   \* 4200.0f
         f0_001 |-> 981668463,    \* 0.001f
         f0_01  |-> 1008981770,   \* 0.01f
         f0_05  |-> 1028443341,   \* 0.05f
         f0_25  |-> 1048576000,   \* 0.25f
         f0_2   |-> 1045220557,   \* 0.2f
         f0_3   |-> 1050253722,   \* 0.3f
         f0_5   |-> 1056964608,   \* 0.5f
         f0_8   |-> 1061997773,   \* 0.8f
         f0_392157 |-> 1053345997 ] \* 0.392157f

VehicleInit ==
    [ rpm |-> Lit.f800, coolant_temp |-> Lit.f85, throttle |-> Lit.f15,
      maf |-> Lit.f5, engine_load |-> Lit.f20, intake_temp |-> Lit.f25,
      gear |-> 0, trans_temp |-> Lit.f60, fuel_level |-> Lit.f75,
      odometer |-> 45231, vehicle_speed |-> Lit.f0, sim_time |-> Lit.f0 ]

\* The four phases of the driving cycle; cycle is fmodf(sim_time, 60.0f)
Phase(cycle) ==
    IF cycle < Lit.f10 THEN "Idle"
    ELSE IF cycle < Lit.f25 THEN "Accelerate"
    ELSE IF cycle < Lit.f45 THEN "Cruise"
    ELSE "Decelerate"

\* the time since the phase began, not divided by its 15 s
Progress_Unnormalised(cycle, start) == FloatSub(cycle, start)

\* accel_progress = (cycle - 10.0f) / 15.0f, decel_progress = (cycle - 45.0f) / 15.0f
Progress(cycle, start) == FloatDiv(FloatSub(cycle, start), Lit.f15)

\* a gear counted from 0 while accelerating
AccelGear_FromZero(a) == FloatTrunc(FloatMul(a, Lit.f5))

\* Accelerate: gear = 1 + (int)(accel_progress * 5); if (gear > 6) gear = 6
AccelGear(a) ==
    LET g == 1 + FloatTrunc(FloatMul(a, Lit.f5))
    IN IF g > 6 THEN 6 ELSE g

\* Decelerate: gear = 6 - (int)(decel_progress * 5); if (gear < 0) gear = 0
DecelGear(d) ==
    LET g == 6 - FloatTrunc(FloatMul(d, Lit.f5))
    IN IF g < 0 THEN 0 ELSE g

\* rpm, throttle, vehicle_speed and gear as set by the branch of the phase;
\* t is vehicle.sim_time after the tick
DrivePattern(t) ==
    LET cycle == fmodf(t, Lit.f60) IN
    IF cycle < Lit.f10 THEN
        [ rpm |-> FloatAdd(Lit.f800, FloatMul(Lit.f50, sinf(FloatMul(t, Lit.f2)))),
          throttle |-> Lit.f0,
          vehicle_speed |-> Lit.f0,
          gear |-> 0 ]
    ELSE IF cycle < Lit.f25 THEN
        LET accel_progress == Progress(cycle, Lit.f10)
        IN [ rpm |-> FloatAdd(Lit.f800, FloatMul(Lit.f4200, accel_progress)),
             throttle |-> FloatAdd(Lit.f30, FloatMul(Lit.f50, accel_progress)),
             vehicle_speed |-> FloatMul(Lit.f120, accel_progress),
             gear |-> AccelGear(accel_progress) ]
    ELSE IF cycle < Lit.f45 THEN
        [ rpm |-> FloatAdd(Lit.f2500, FloatMul(Lit.f200, sinf(FloatMul(t, Lit.f0_5)))),
          throttle |-> FloatAdd(Lit.f25, FloatMul(Lit.f5, sinf(FloatMul(t, Lit.f0_3)))),
          vehicle_speed |-> FloatAdd(Lit.f100, FloatMul(Lit.f10, sinf(FloatMul(t, Lit.f0_2)))),
          gear |-> 6 ]
    ELSE
        LET decel_progress == Progress(cycle, Lit.f45)
        IN [ rpm |-> FloatSub(Lit.f2500, FloatMul(Lit.f1700, decel_progress)),
             throttle |-> FloatMul(Lit.f25, FloatSub(Lit.f1, decel_progress)),
             vehicle_speed |-> FloatMul(Lit.f100, FloatSub(Lit.f1, decel_progress)),
             gear |-> DecelGear(decel_progress) ]

\* a wrong odometer increment: the distance of a whole hour at this speed
OdometerStep_PerHour(speed) == FloatTrunc(speed)

\* the increment rounded up instead of truncated
OdometerStep_RoundedUp(speed) == IF speed > 0 THEN 1 ELSE 0

\* (uint32_t)(vehicle.vehicle_speed * dt / 3600.0f) with dt = 0.001f
OdometerStep(speed) == FloatTrunc(FloatDiv(FloatMul(speed, Lit.f0_001), Lit.f3600))

\* a fuel level that is never refilled
FuelLevel_NoRefill(t) == FloatSub(Lit.f75, FloatMul(t, Lit.f0_01))

\* 75.0f - fmodf(vehicle.sim_time * 0.01f, 50.0f)
FuelLevel(t) == FloatSub(Lit.f75, fmodf(FloatMul(t, Lit.f0_01), Lit.f50))

\* update_simulation(0.001f) applied to the vehicle state v
update_simulation(v) ==
    LET \* the fields that follow the driving pattern p at the time t
        Derived(t, p) ==
            LET load == FloatAdd(FloatMul(p.throttle, Lit.f0_8), Lit.f10)
                ratio == FloatDiv(load, Lit.f100)
            IN [ rpm |-> p.rpm,
                 coolant_temp |-> FloatAdd(Lit.f85,
                                     FloatMul(Lit.f10, sinf(FloatMul(t, Lit.f0_01)))),
                 throttle |-> p.throttle,
                 maf |-> FloatMul(FloatMul(FloatDiv(p.rpm, Lit.f1000), ratio), Lit.f15),
                 engine_load |-> load,
                 intake_temp |-> FloatAdd(Lit.f25,
                                    FloatMul(Lit.f5, sinf(FloatMul(t, Lit.f0_05)))),
                 gear |-> p.gear,
                 trans_temp |-> FloatAdd(Lit.f70, FloatMul(Lit.f20, ratio)),
                 fuel_level |-> FuelLevel(t),
                 odometer |-> v.odometer + OdometerStep(p.vehicle_speed),
                 vehicle_speed |-> p.vehicle_speed,
                 sim_time |-> t ]
        Tick(t) == Derived(t, DrivePattern(t))
    IN Tick(FloatAdd(v.sim_time, Lit.f0_001))

\* ------------------------------------------------------------------------
\* CAN frames
\* ------------------------------------------------------------------------
Byte == 0..255

\* data[8] with the first bytes given and the rest zero ("uint8_t data[8] = {0}")
Data8(bytes) == [i \in 1..8 |-> IF i <= Len(bytes) THEN bytes[i] ELSE 0]

\* a high byte taken without the shift
Hi_NoShift(w) == w % 256

Hi(w) == (w \div 256) % 256
Lo(w) == w % 256

\* can_send: the frame built from (id, data, len); ok is the outcome of write()
can_send(id, data, len, ok) ==
    [ can_id |-> id, can_dlc |-> len,
      data |-> [i \in 1..8 |-> IF i <= len THEN data[i] ELSE 0],
      ok |-> ok ]

\* x * 255.0f / 100.0f: a percentage scaled to a byte
Percent(x) == FloatDiv(FloatMul(x, Lit.f255), Lit.f100)

\* send_engine_data_1: ENGINE_DATA_1 (0x100)
send_engine_data_1(v, u, ok) ==
    LET rpm_raw == CastU16(FloatDiv(v.rpm, Lit.f0_25), u)
        maf_raw == CastU16(FloatDiv(v.maf, Lit.f0_01), u)
    IN can_send(CAN_ID_ENGINE_DATA_1,
                Data8(<< Hi(rpm_raw), Lo(rpm_raw),
                         CastU8(FloatAdd(v.coolant_temp, Lit.f40), u),
                         CastU8(Percent(v.throttle), u),
                         Hi(maf_raw), Lo(maf_raw),
                         CastU8(Percent(v.engine_load), u) >>),
                8, ok)

\* send_engine_data_2: ENGINE_DATA_2 (0x101)
send_engine_data_2(v, u, ok) ==
    can_send(CAN_ID_ENGINE_DATA_2,
             Data8(<< CastU8(FloatAdd(v.intake_temp, Lit.f40), u),
                      CastU8(Percent(v.engine_load), u) >>),
             8, ok)

\* send_trans_data: TRANS_DATA (0x200)
send_trans_data(v, u, ok) ==
    LET speed_raw == CastU16(v.vehicle_speed, u)
    IN can_send(CAN_ID_TRANS_DATA,
                Data8(<< v.gear % 256,
                         CastU8(FloatAdd(v.trans_temp, Lit.f40), u),
                         Hi(speed_raw), Lo(speed_raw) >>),
                8, ok)

\* send_bcm_data: BCM_DATA (0x300)
send_bcm_data(v, u, ok) ==
    can_send(CAN_ID_BCM_DATA,
             Data8(<< CastU8(Percent(v.fuel_level), u),
                      (v.odometer \div 16777216) % 256,
                      (v.odometer \div 65536) % 256,
                      (v.odometer \div 256) % 256,
                      v.odometer % 256 >>),
             8, ok)

\* ------------------------------------------------------------------------
\* Signal extraction (can_defs.h); data[i + 1] is byte i of the payload
\* ------------------------------------------------------------------------
CAN_GET_U16_BE(data, offset) == data[offset + 1] * 256 + data[offset + 2]

CAN_GET_U8(data, offset) == data[offset + 1]

\* raw * ENGINE1_RPM_FACTOR (0.25f)
ENGINE1_GET_RPM(data) == FloatMul(FloatOfInt(CAN_GET_U16_BE(data, 0)), Lit.f0_25)

\* raw - ENGINE1_COOLANT_OFFSET, in degrees
ENGINE1_GET_COOLANT(data) == CAN_GET_U8(data, 2) - 40

\* raw * ENGINE1_THROTTLE_FACTOR (0.392157f)
ENGINE1_GET_THROTTLE(data) == FloatMul(FloatOfInt(CAN_GET_U8(data, 3)), Lit.f0_392157)

\* raw * ENGINE1_MAF_FACTOR (0.01f)
ENGINE1_GET_MAF(data) == FloatMul(FloatOfInt(CAN_GET_U16_BE(data, 4)), Lit.f0_01)

TRANS_GET_GEAR(data) == CAN_GET_U8(data, 0)

\* raw - TRANS_TEMP_OFFSET, in degrees
TRANS_GET_FLUID_TEMP(data) == CAN_GET_U8(data, 1) - 40

\* bytes 2-3 of TRANS_DATA as an unsigned 16-bit number
TRANS_GET_OUTPUT_RPM(data) == CAN_GET_U16_BE(data, 2)

\* (float)a * 100.0f / 255.0f (obd2_calc_engine_load, obd2_calc_fuel_level:
\* the rule raw * 100/255 for engine_load and fuel_level)
Percent255(a) == FloatDiv(FloatMul(FloatOfInt(a), Lit.f100), Lit.f255)

\* bytes 1-4 of BCM_DATA as a big-endian unsigned 32-bit number
BcmOdometer(data) ==
    data[2] * 16777216 + data[3] * 65536 + data[4] * 256 + data[5]

\* ------------------------------------------------------------------------
\* The readers of the broadcasts: the telemetry publisher and the console
\* ------------------------------------------------------------------------
\* conversion of an int in -128..255 to int8_t (modulo 2^8)
ToInt8(x) == IF x > 127 THEN x - 256 ELSE x

\* the telemetry publisher's "vehicle = {0}"
TelemetryInit ==
    [ rpm |-> 0, coolant_temp |-> 0, engine_load |-> 0, throttle |-> 0,
      speed |-> 0, odometer |-> 0, fuel_level |-> 0, last_update |-> 0 ]

\* decode_can_frame of the telemetry publisher: its state tv after frame;
\* t is the value of time(NULL)
decode_can_frame(tv, frame, t) ==
    LET id == frame.can_id % 2048 IN
    CASE id = 256 ->
           [tv EXCEPT !.rpm = (frame.data[1] * 256 + frame.data[2]) \div 4,
                      !.coolant_temp = ToInt8(frame.data[3] - 40),
                      !.engine_load = frame.data[4],
                      !.last_update = t]
      [] id = 257 ->
           [tv EXCEPT !.throttle = (frame.data[1] * 100) \div 255]
      [] id = 512 ->
           [tv EXCEPT !.speed = frame.data[1],
                      !.odometer = frame.data[3] * 65536 + frame.data[4] * 256
                                   + frame.data[5]]
      [] id = 768 ->
           [tv EXCEPT !.fuel_level = (frame.data[1] * 100) \div 255]
      [] OTHER -> tv

\* the publisher's state after it has read the frames of s in order; ts[i]
\* is the value of time(NULL) while frame i is decoded
RECURSIVE TelemetryAfter(_, _, _)
TelemetryAfter(tv, s, ts) ==
    IF s = << >> THEN tv
    ELSE TelemetryAfter(decode_can_frame(tv, Head(s), Head(ts)), Tail(s), Tail(ts))

\* values of time(NULL) for n frames: the frames arrive within one second
\* or one second apart, from 0 or from 1700000000 s on
ReadTimes(n) ==
    { [ i \in 1..n |-> t0 + d * (i - 1) ] : t0 \in {0, 1700000000}, d \in {0, 1} }

\* the console's "v = {0}"
ConsoleInit ==
    [ rpm |-> 0, speed |-> 0, throttle |-> 0, fuel |-> 0, temp |-> 0, load |-> 0 ]

\* the switch in the console's read loop: its state cv after frame f
ConsoleSwitch(cv, f) ==
    LET id == f.can_id % 2048 IN
    CASE id = 256 ->
           [cv EXCEPT !.rpm = (f.data[1] * 256 + f.data[2]) \div 4,
                      !.temp = f.data[3] - 40,
                      !.load = f.data[4]]
      [] id = 257 -> [cv EXCEPT !.throttle = (f.data[1] * 100) \div 255]
      [] id = 512 -> [cv EXCEPT !.speed = f.data[1]]
      [] id = 768 -> [cv EXCEPT !.fuel = (f.data[1] * 100) \div 255]
      [] OTHER -> cv

\* the console's state after it has read the frames of s in order
RECURSIVE ConsoleAfter(_, _)
ConsoleAfter(cv, s) ==
    IF s = << >> THEN cv
    ELSE ConsoleAfter(ConsoleSwitch(cv, Head(s)), Tail(s))

\* ------------------------------------------------------------------------
\* OBD-II request handling
\* ------------------------------------------------------------------------
\* case OBD2_PID_SUPPORTED_01_20 falling through into the next case (no break)
Mode01Bitmap_Fallthrough(v, pid, u) ==
    [len |-> 4,
     d |-> << 3, OBD2_MODE_CURRENT_DATA + OBD2_RESPONSE_OFFSET, pid,
              CastU8(Percent(v.engine_load), u), 62, 128, 0 >>]

\* case OBD2_PID_SUPPORTED_01_20: the literal bitmap; no vehicle field is read
Mode01Bitmap(v, pid, u) ==
    [len |-> 7,
     d |-> << 6, OBD2_MODE_CURRENT_DATA + OBD2_RESPONSE_OFFSET, pid,
              24, 62, 128, 0 >>]

\* the default branch leaving len = 0: the request is dropped
Mode01Default_Drop == [len |-> 0, d |-> << >>]

\* a negative response sent with one byte too few
Mode01Default_ShortLen == [len |-> 3, d |-> << 3, 127, OBD2_MODE_CURRENT_DATA, 18 >>]

\* default branch: negative response, "sub-function not supported"
Mode01Default == [len |-> 4, d |-> << 3, 127, OBD2_MODE_CURRENT_DATA, 18 >>]

\* the rpm sent without the 1/4 rpm scaling
Mode01RpmRaw_Unscaled(v, u) == CastU16(v.rpm, u)

\* uint16_t rpm_raw = (uint16_t)(vehicle.rpm * 4.0f)
Mode01RpmRaw(v, u) == CastU16(FloatMul(v.rpm, Lit.f4), u)

\* the switch of handle_obd2_mode01: response[] and len for a PID
Mode01Response(v, pid, u) ==
    LET pos == OBD2_MODE_CURRENT_DATA + OBD2_RESPONSE_OFFSET
        rpm_raw == Mode01RpmRaw(v, u)
        maf_raw == CastU16(FloatMul(v.maf, Lit.f100), u)
        r == CASE pid = OBD2_PID_SUPPORTED_01_20 -> Mode01Bitmap(v, pid, u)
               [] pid = OBD2_PID_ENGINE_LOAD ->
                    [len |-> 4, d |-> << 3, pos, pid,
                                         CastU8(Percent(v.engine_load), u) >>]
               [] pid = OBD2_PID_COOLANT_TEMP ->
                    [len |-> 4, d |-> << 3, pos, pid,
                                         CastU8(FloatAdd(v.coolant_temp, Lit.f40), u) >>]
               [] pid = OBD2_PID_ENGINE_RPM ->
                    [len |-> 5, d |-> << 4, pos, pid, Hi(rpm_raw), Lo(rpm_raw) >>]
               [] pid = OBD2_PID_VEHICLE_SPEED ->
                    [len |-> 4, d |-> << 3, pos, pid,
                                         CastU8(v.vehicle_speed, u) >>]
               [] pid = OBD2_PID_INTAKE_TEMP ->
                    [len |-> 4, d |-> << 3, pos, pid,
                                         CastU8(FloatAdd(v.intake_temp, Lit.f40), u) >>]
               [] pid = OBD2_PID_MAF ->
                    [len |-> 5, d |-> << 4, pos, pid, Hi(maf_raw), Lo(maf_raw) >>]
               [] pid = OBD2_PID_THROTTLE_POS ->
                    [len |-> 4, d |-> << 3, pos, pid,
                                         CastU8(Percent(v.throttle), u) >>]
               [] pid = OBD2_PID_FUEL_LEVEL ->
                    [len |-> 4, d |-> << 3, pos, pid,
                                         CastU8(Percent(v.fuel_level), u) >>]
               [] OTHER -> Mode01Default
    IN r

\* handle_obd2_mode01 answering on the transmission ECU's response identifier
\* (CAN_ID_OBD_RESP_TRANS, 0x7E9)
handle_obd2_mode01_WrongId(v, pid, u, ok) ==
    LET r == Mode01Response(v, pid, u)
    IN IF r.len > 0
       THEN << can_send(2025, Data8(r.d), r.len, ok) >>
       ELSE << >>

\* handle_obd2_mode01: the frames handed to can_send for a Mode 01 request
handle_obd2_mode01(v, pid, u, ok) ==
    LET r == Mode01Response(v, pid, u)
    IN IF r.len > 0
       THEN << can_send(CAN_ID_OBD_RESP_ENGINE, Data8(r.d), r.len, ok) >>
       ELSE << >>

\* process_obd2_request without the can_dlc check
process_obd2_request_NoDlcCheck(v, frame, u, ok) ==
    IF frame.can_id # CAN_ID_OBD_BROADCAST /\ frame.can_id # CAN_ID_OBD_ECU_ENGINE
    THEN << >>
    ELSE IF frame.data[2] = OBD2_MODE_CURRENT_DATA
         THEN handle_obd2_mode01(v, frame.data[3], u, ok)
         ELSE << >>

\* process_obd2_request without the identifier check
process_obd2_request_NoIdCheck(v, frame, u, ok) ==
    IF frame.can_dlc < 2 THEN << >>
    ELSE IF frame.data[2] = OBD2_MODE_CURRENT_DATA
         THEN handle_obd2_mode01(v, IF frame.can_dlc >= 3 THEN frame.data[3] ELSE 0,
                                 u, ok)
         ELSE << >>

\* process_obd2_request answering an unimplemented mode with a negative response
process_obd2_request_NegativeMode(v, frame, u, ok) ==
    IF frame.can_id # CAN_ID_OBD_BROADCAST /\ frame.can_id # CAN_ID_OBD_ECU_ENGINE
    THEN << >>
    ELSE IF frame.can_dlc < 2 THEN << >>
    ELSE IF frame.data[2] = OBD2_MODE_CURRENT_DATA
         THEN handle_obd2_mode01(v, IF frame.can_dlc >= 3 THEN frame.data[3] ELSE 0,
                                 u, ok)
         ELSE << can_send(CAN_ID_OBD_RESP_ENGINE,
                          Data8(<< 3, 127, frame.data[2], 17 >>), 4, ok) >>

\* process_obd2_request reading the PID byte whatever the DLC
process_obd2_request_ReadsPidByte(v, frame, u, ok) ==
    IF frame.can_id # CAN_ID_OBD_BROADCAST /\ frame.can_id # CAN_ID_OBD_ECU_ENGINE
    THEN << >>
    ELSE IF frame.can_dlc < 2 THEN << >>
    ELSE IF frame.data[2] = OBD2_MODE_CURRENT_DATA
         THEN handle_obd2_mode01(v, frame.data[3], u, ok)
         ELSE << >>

\* process_obd2_request: the frames handed to can_send in reaction to frame
process_obd2_request(v, frame, u, ok) ==
    IF frame.can_id # CAN_ID_OBD_BROADCAST /\ frame.can_id # CAN_ID_OBD_ECU_ENGINE
    THEN << >>
    ELSE IF frame.can_dlc < 2 THEN << >>
    ELSE LET mode == frame.data[2]
             pid  == IF frame.can_dlc >= 3 THEN frame.data[3] ELSE 0
         IN IF mode = OBD2_MODE_CURRENT_DATA
            THEN handle_obd2_mode01(v, pid, u, ok)
            ELSE << >>

\* ------------------------------------------------------------------------
\* The OBD-II gateway: vehicle_state and its Mode 01 responses
\* ------------------------------------------------------------------------
\* the initializer of vehicle_state; tick is update_simulation's static counter
GwInit ==
    [ rpm |-> 850, speed |-> 0, coolant_temp |-> 90, throttle |-> 15,
      fuel_level |-> 75, engine_load |-> 25, maf |-> 10, intake_temp |-> 25,
      tick |-> 0 ]

\* the gateway's update_simulation; r1, r2, r3 are rand() % 100, rand() % 6
\* and rand() % 10
gw_update_simulation(g, r1, r2, r3) ==
    [g EXCEPT !.tick = g.tick + 1,
              !.rpm = 800 + r1,
              !.throttle = 12 + r2,
              !.engine_load = 20 + r3,
              !.coolant_temp = IF (g.tick + 1) % 10 = 0 /\ g.coolant_temp < 95
                               THEN g.coolant_temp + 1 ELSE g.coolant_temp]

\* build_mode01_response: its return value and response->data
build_mode01_response(g, pid) ==
    LET rpm_encoded == (g.rpm * 4) % 65536
        maf_encoded == (g.maf * 100) % 65536
        pos(n, bytes) == [ret |-> 0, data |-> Data8(<< n, 65, pid >> \o bytes)]
    IN CASE pid = OBD2_PID_ENGINE_LOAD ->
              pos(3, << ((g.engine_load * 255) \div 100) % 256 >>)
         [] pid = OBD2_PID_COOLANT_TEMP -> pos(3, << (g.coolant_temp + 40) % 256 >>)
         [] pid = OBD2_PID_ENGINE_RPM -> pos(4, << Hi(rpm_encoded), Lo(rpm_encoded) >>)
         [] pid = OBD2_PID_VEHICLE_SPEED -> pos(3, << g.speed >>)
         [] pid = OBD2_PID_INTAKE_TEMP -> pos(3, << (g.intake_temp + 40) % 256 >>)
         [] pid = OBD2_PID_MAF -> pos(4, << Hi(maf_encoded), Lo(maf_encoded) >>)
         [] pid = OBD2_PID_THROTTLE_POS ->
              pos(3, << ((g.throttle * 255) \div 100) % 256 >>)
         [] pid = OBD2_PID_FUEL_LEVEL ->
              pos(3, << ((g.fuel_level * 255) \div 100) % 256 >>)
         [] pid = OBD2_PID_SUPPORTED_01_20 -> pos(6, << 24, 56, 128, 1 >>)
         [] pid = OBD2_PID_SUPPORTED_21_40 -> pos(6, << 0, 0, 64, 0 >>)
         [] OTHER -> [ret |-> -1, data |-> Data8(<< >>)]

\* the gateway's process_obd2_request: the frames it writes to the socket in
\* reaction to request; ok is the outcome of write()
gw_process_obd2_request(g, request, ok) ==
    LET length == request.data[1]
        mode == request.data[2]
        pid == request.data[3]
        r == build_mode01_response(g, pid)
    IN IF length < 2 THEN << >>
       ELSE IF mode = OBD2_MODE_CURRENT_DATA /\ r.ret = 0
            THEN << [can_id |-> CAN_ID_OBD_RESP_ENGINE, can_dlc |-> 8,
                     data |-> r.data, ok |-> ok] >>
            ELSE << >>

\* ------------------------------------------------------------------------
\* Diagnostic trouble codes (dtc_codes.h).  A string is the sequence of the
\* character codes of its five characters.
\* ------------------------------------------------------------------------
Bit(x, i) == (x \div Pow2(i)) % 2

\* a | b on 8 bits
Or8(a, b) ==
    LET f[i \in 0..8] ==
          IF i = 8 THEN 0
          ELSE (IF Bit(a, i) = 1 \/ Bit(b, i) = 1 THEN Pow2(i) ELSE 0) + f[i + 1]
    IN f[0]

\* dtc_decode with the first digit taken from all four bits 7-4
dtc_decode_WideDigit(byte1, byte2) ==
    << << 80, 67, 66, 85 >>[((byte1 \div 64) % 4) + 1],
       48 + ((byte1 \div 16) % 16),
       48 + (byte1 % 16),
       48 + ((byte2 \div 16) % 16),
       48 + (byte2 % 16) >>

\* dtc_decode: out[0..4]; categories[] = {'P', 'C', 'B', 'U'}, '0' = 48
dtc_decode(byte1, byte2) ==
    << << 80, 67, 66, 85 >>[((byte1 \div 64) % 4) + 1],
       48 + ((byte1 \div 16) % 4),
       48 + (byte1 % 16),
       48 + ((byte2 \div 16) % 16),
       48 + (byte2 % 16) >>

\* the switch of dtc_encode on dtc[0]: cat, or -1 for the default branch
DtcCategory(c) ==
    CASE c \in {80, 112} -> 0
      [] c \in {67, 99} -> 1
      [] c \in {66, 98} -> 2
      [] c \in {85, 117} -> 3
      [] OTHER -> -1

\* dtc_encode(str, &byte1, &byte2) with the buffers holding b1 and b2: the
\* return value and the buffers afterwards (uint8_t: the low 8 bits)
dtc_encode(str, b1, b2) ==
    LET cat == DtcCategory(str[1]) IN
    IF cat = -1 THEN [ret |-> -1, byte1 |-> b1, byte2 |-> b2]
    ELSE [ret |-> 0,
          byte1 |-> Or8(Or8(cat * 64, ((str[2] - 48) * 16) % 256),
                        (str[3] - 48) % 256),
          byte2 |-> Or8(((str[4] - 48) * 16) % 256, (str[5] - 48) % 256)]

\* no call has been made
DtcIdle == [str |-> << >>, ret |-> 0, byte1 |-> 0, byte2 |-> 0, out |-> << >>]

\* ------------------------------------------------------------------------
\* The bus shared by the services of the image
\* ------------------------------------------------------------------------
\* vcan0 before any traffic: frames is every frame written to the bus, in
\* order; ecu_q and gw_q are the frames queued on the sockets of the ECU
\* simulator and of the gateway and not yet read
BusInit == [frames |-> << >>, ecu_q |-> << >>, gw_q |-> << >>]

\* ------------------------------------------------------------------------
\* The CAN bus logger (logger_main.c, as listed in the layer's README)
\* ------------------------------------------------------------------------
\* the statics of the logger when the process starts, and the can-N.log
\* files of LOG_DIR (dir, the set of their numbers N) on a fresh image;
\* log_file is "null", "open", or "closed" (after the fclose of main)
\* wrote tells what the last call of log_frame did with its frame: "file"
\* (written to the open file), "dropped" (returned at once), "null"
\* (fprintf called with log_file = NULL), "none" (no call yet)
LoggerInit ==
    [ log_file |-> "null", bytes_logged |-> 0, frame_count |-> 0,
      current_file_num |-> 0, dir |-> {}, wrote |-> "none" ]

MAX_LOG_SIZE == 10485760
MAX_LOG_FILES == 5

\* rotate_logs: unlink can-(current_file_num - MAX_LOG_FILES).log
rotate_logs(l) == [l EXCEPT !.dir = @ \ {l.current_file_num - MAX_LOG_FILES}]

\* open_log_file; ok is the outcome of fopen(filepath, "w").  The result is
\* the return value and the statics and directory afterwards.
open_log_file(l, ok) ==
    LET n == l.current_file_num + 1
    IN IF ~ok
       THEN [ret |-> -1, l |-> [l EXCEPT !.current_file_num = n, !.log_file = "null"]]
       ELSE [ret |-> 0,
             l |-> rotate_logs([l EXCEPT !.current_file_num = n,
                                         !.log_file = "open",
                                         !.dir = @ \cup {n},
                                         !.bytes_logged = 0])]

\* characters of one log line, the sum of what the fprintf calls return:
\* 26 for the timestamp, 11 for "  %03X  [%d] ", 3 for each " %02X", 1 for
\* the newline
LogLineBytes(len) == 38 + 3 * len

\* what fprintf(NULL, ...) can do: end the process with SIGSEGV, or return
\* -1 from each call
LogUbKinds == {"crash", "returns"}

\* log_frame for a frame of len data bytes; ok is the outcome of the fopen
\* of a rotation, ub the outcome of fprintf on a NULL log_file
log_frame(l, len, ok, ub) ==
    IF l.log_file = "null" THEN [l EXCEPT !.wrote = "dropped"]
    ELSE LET r == IF l.bytes_logged >= MAX_LOG_SIZE THEN open_log_file(l, ok).l ELSE l
         IN IF r.log_file = "null"
            THEN IF ub = "crash"
                 THEN [r EXCEPT !.wrote = "null"]
                 ELSE [r EXCEPT !.bytes_logged = @ - (len + 2),
                                !.frame_count = @ + 1,
                                !.wrote = "null"]
            ELSE [r EXCEPT !.bytes_logged = @ + LogLineBytes(len),
                           !.frame_count = @ + 1,
                           !.wrote = "file"]

\* ------------------------------------------------------------------------
\* State
\* ------------------------------------------------------------------------
VARIABLES
    vehicle,        \* the static struct vehicle
    running,        \* the shutdown flag (volatile sig_atomic_t)
    pc,             \* position of main()
    clock,          \* CLOCK_MONOTONIC in ms, as get_time_ms() would read it
    now,            \* main's local now
    last_engine1,   \* main's last-fire timestamps
    last_engine2,
    last_trans,
    last_bcm,
    rx_ret,         \* return value of can_receive in the current iteration
    rx_frame,       \* main's local rx_frame
    sent,           \* frames handed to can_send in the current iteration, in order
    sock,           \* the CAN socket: "none" (not created), "open", "closed"
    gw,             \* the OBD-II gateway's vehicle_state and tick counter
    dtc,            \* a caller of dtc_encode / dtc_decode: its string and buffers
    bus,            \* vcan0 shared by the services: frames written, socket queues
    logger          \* the logger's statics and the files of its log directory

vars == << vehicle, running, pc, clock, now, last_engine1, last_engine2,
           last_trans, last_bcm, rx_ret, rx_frame, sent, sock, gw, dtc, bus,
           logger >>

timers == << last_engine1, last_engine2, last_trans, last_bcm >>

\* ------------------------------------------------------------------------
\* Inputs
\* ------------------------------------------------------------------------
\* value of the monotonic clock when the process starts
ClockStarts == {0, 5}

\* how long sleep_ms(1) can take: the nominal 1 ms, or longer under load
SleepMs == {1, 10, 100}

ZeroFrame == [can_id |-> 0, can_dlc |-> 0, data |-> Data8(<< >>)]

ReqIds == {CAN_ID_OBD_BROADCAST, CAN_ID_OBD_ECU_ENGINE}
ReqDlcs == {0, 1, 2, 3, 8}
ReqLens == {1, 2}
ReqModes == {1, 3, 9}
ReqPids == {0, 12, 32, 47, 255}

\* frames on a request identifier: [declared length] [mode] [pid]
RequestFrames ==
    { [can_id |-> id, can_dlc |-> dlc, data |-> Data8(<< n, m, p >>)] :
        id \in ReqIds, dlc \in ReqDlcs, n \in ReqLens, m \in ReqModes, p \in ReqPids }

\* other traffic on the bus: a peer's response and the broadcasts
OtherFrames ==
    { [can_id |-> id, can_dlc |-> 8, data |-> Data8(<< 2, 1, p >>)] :
        id \in {CAN_ID_OBD_RESP_ENGINE, CAN_ID_ENGINE_DATA_1, CAN_ID_TRANS_DATA,
                CAN_ID_BCM_DATA},
        p \in {0, 12} }

RxFrames == RequestFrames \cup OtherFrames

\* ------------------------------------------------------------------------
\* main()
\* ------------------------------------------------------------------------
Init ==
    /\ vehicle = VehicleInit
    /\ running = 1
    /\ pc = "start"
    /\ clock \in ClockStarts
    /\ now = 0
    /\ last_engine1 = 0 /\ last_engine2 = 0 /\ last_trans = 0 /\ last_bcm = 0
    /\ rx_ret = 0
    /\ rx_frame = ZeroFrame
    /\ sent = << >>
    /\ sock = "none"
    /\ gw = GwInit
    /\ bus = BusInit
    /\ logger = LoggerInit
    /\ dtc = DtcIdle

\* the step of can_socket_open that can fail
OpenFailures == {"socket", "ioctl", "bind"}

\* a failure path that returns without close(sock)
MainOpenFail_Leak ==
    /\ pc = "start"
    /\ \E k \in OpenFailures :
         sock' = IF k = "socket" THEN "none" ELSE "open"
    /\ pc' = "exit1"
    /\ UNCHANGED << logger, bus, dtc, gw, vehicle, running, clock, now, timers, rx_ret, rx_frame, sent >>

\* can_socket_open fails and returns -1, after close(sock) if the socket
\* had been created; main returns 1
MainOpenFail ==
    /\ pc = "start"
    /\ \E k \in OpenFailures :
         sock' = IF k = "socket" THEN "none" ELSE "closed"
    /\ pc' = "exit1"
    /\ UNCHANGED << logger, bus, dtc, gw, vehicle, running, clock, now, timers, rx_ret, rx_frame, sent >>

\* can_socket_open succeeds; "Initialize timing"
MainOpen ==
    /\ pc = "start"
    /\ sock' = "open"
    /\ now' = clock
    /\ last_engine1' = clock /\ last_engine2' = clock
    /\ last_trans' = clock /\ last_bcm' = clock
    /\ pc' = "loop"
    /\ UNCHANGED << logger, bus, dtc, gw, vehicle, running, clock, rx_ret, rx_frame, sent >>

\* a loop that does not look at the flag
MainLoop_IgnoresFlag ==
    /\ pc = "loop"
    /\ SimTimeMs(vehicle.sim_time) < MaxLoopMs
    /\ pc' = "tick"
    /\ sent' = << >>
    /\ rx_ret' = 0
    /\ rx_frame' = ZeroFrame
    /\ UNCHANGED << logger, bus, dtc, gw, sock, vehicle, running, clock, now, timers >>

\* while (running): a new iteration starts.  rx_frame is not read before
\* can_receive overwrites it, so the model forgets it here.
MainLoop ==
    /\ pc = "loop"
    /\ running # 0
    /\ SimTimeMs(vehicle.sim_time) < MaxLoopMs
    /\ pc' = "tick"
    /\ sent' = << >>
    /\ rx_ret' = 0
    /\ rx_frame' = ZeroFrame
    /\ UNCHANGED << logger, bus, dtc, gw, sock, vehicle, running, clock, now, timers >>

\* while (running) fails: close(sock); return 0
MainExit ==
    /\ pc = "loop"
    /\ running = 0
    /\ sock' = "closed"
    /\ pc' = "exit0"
    /\ UNCHANGED << logger, bus, dtc, gw, vehicle, running, clock, now, timers, rx_ret, rx_frame, sent >>

\* now = get_time_ms(); update_simulation(0.001f)
MainTick ==
    /\ pc = "tick"
    /\ now' = clock
    /\ vehicle' = update_simulation(vehicle)
    /\ pc' = "sched"
    /\ UNCHANGED << logger, bus, dtc, gw, sock, running, clock, timers, rx_ret, rx_frame, sent >>

\* a block that fires on every pass
Due_Always(last, period) == now >= last

\* a block that fires only after more than one period
Due_Strict(last, period) == now - last > period

\* one broadcast block of main: if (now - last >= period) { send; last = now; }
Due(last, period) == now - last >= period

\* a block that schedules from the missed deadline: last += period
Fire_CatchUp(last, period) == IF Due(last, period) THEN last + period ELSE last

\* the last-fire timestamp after the block: "last = now" inside the if
Fire(last, period) == IF Due(last, period) THEN now ELSE last

\* broadcast blocks that keep a message due until its write() succeeds
Broadcast_RetryOnFailure(u, ok1, ok2, ok3, ok4) ==
    /\ sent' = sent
          \o (IF Due(last_engine1, ENGINE_CYCLE_MS)
              THEN << send_engine_data_1(vehicle, u, ok1) >> ELSE << >>)
          \o (IF Due(last_engine2, ENGINE2_CYCLE_MS)
              THEN << send_engine_data_2(vehicle, u, ok2) >> ELSE << >>)
          \o (IF Due(last_trans, TRANS_CYCLE_MS)
              THEN << send_trans_data(vehicle, u, ok3) >> ELSE << >>)
          \o (IF Due(last_bcm, BCM_CYCLE_MS)
              THEN << send_bcm_data(vehicle, u, ok4) >> ELSE << >>)
    /\ last_engine1' = IF ok1 THEN Fire(last_engine1, ENGINE_CYCLE_MS) ELSE last_engine1
    /\ last_engine2' = IF ok2 THEN Fire(last_engine2, ENGINE2_CYCLE_MS) ELSE last_engine2
    /\ last_trans' = IF ok3 THEN Fire(last_trans, TRANS_CYCLE_MS) ELSE last_trans
    /\ last_bcm' = IF ok4 THEN Fire(last_bcm, BCM_CYCLE_MS) ELSE last_bcm

\* broadcast blocks in which Body runs at Engine-1's period
Broadcast_BodyAtEnginePeriod(u, ok1, ok2, ok3, ok4) ==
    /\ sent' = sent
          \o (IF Due(last_engine1, ENGINE_CYCLE_MS)
              THEN << send_engine_data_1(vehicle, u, ok1) >> ELSE << >>)
          \o (IF Due(last_engine2, ENGINE2_CYCLE_MS)
              THEN << send_engine_data_2(vehicle, u, ok2) >> ELSE << >>)
          \o (IF Due(last_trans, TRANS_CYCLE_MS)
              THEN << send_trans_data(vehicle, u, ok3) >> ELSE << >>)
          \o (IF Due(last_bcm, ENGINE_CYCLE_MS)
              THEN << send_bcm_data(vehicle, u, ok4) >> ELSE << >>)
    /\ last_engine1' = Fire(last_engine1, ENGINE_CYCLE_MS)
    /\ last_engine2' = Fire(last_engine2, ENGINE2_CYCLE_MS)
    /\ last_trans' = Fire(last_trans, TRANS_CYCLE_MS)
    /\ last_bcm' = Fire(last_bcm, ENGINE_CYCLE_MS)

\* the four broadcast blocks, in the order of main; ok1..ok4 are the
\* outcomes of write()
Broadcast(u, ok1, ok2, ok3, ok4) ==
    /\ sent' = sent
          \o (IF Due(last_engine1, ENGINE_CYCLE_MS)
              THEN << send_engine_data_1(vehicle, u, ok1) >> ELSE << >>)
          \o (IF Due(last_engine2, ENGINE2_CYCLE_MS)
              THEN << send_engine_data_2(vehicle, u, ok2) >> ELSE << >>)
          \o (IF Due(last_trans, TRANS_CYCLE_MS)
              THEN << send_trans_data(vehicle, u, ok3) >> ELSE << >>)
          \o (IF Due(last_bcm, BCM_CYCLE_MS)
              THEN << send_bcm_data(vehicle, u, ok4) >> ELSE << >>)
    /\ last_engine1' = Fire(last_engine1, ENGINE_CYCLE_MS)
    /\ last_engine2' = Fire(last_engine2, ENGINE2_CYCLE_MS)
    /\ last_trans' = Fire(last_trans, TRANS_CYCLE_MS)
    /\ last_bcm' = Fire(last_bcm, BCM_CYCLE_MS)

\* a broadcast pass that stores the quantised rpm it encoded back into the state
MainBroadcast_WritesBack ==
    /\ pc = "sched"
    /\ \E u \in ConvKinds, ok1 \in BOOLEAN, ok2 \in BOOLEAN,
          ok3 \in BOOLEAN, ok4 \in BOOLEAN : Broadcast(u, ok1, ok2, ok3, ok4)
    /\ vehicle' = [vehicle EXCEPT !.rpm =
                      FloatMul(FloatOfInt(CastU16(FloatDiv(vehicle.rpm, Lit.f0_25), "sat")),
                               Lit.f0_25)]
    /\ pc' = "recv"
    /\ UNCHANGED << logger, bus, dtc, gw, sock, running, clock, now, rx_ret, rx_frame >>

MainBroadcast ==
    /\ pc = "sched"
    /\ \E u \in ConvKinds, ok1 \in BOOLEAN, ok2 \in BOOLEAN,
          ok3 \in BOOLEAN, ok4 \in BOOLEAN : Broadcast(u, ok1, ok2, ok3, ok4)
    /\ pc' = "recv"
    /\ UNCHANGED << logger, bus, dtc, gw, sock, vehicle, running, clock, now, rx_ret, rx_frame >>

\* can_receive returns 0: select timed out after 1 ms
MainReceiveTimeout ==
    /\ pc = "recv"
    /\ clock < MaxClock
    /\ clock' = clock + 1
    /\ rx_ret' = 0
    /\ pc' = "sleep"
    /\ UNCHANGED << logger, bus, dtc, gw, sock, vehicle, running, now, timers, rx_frame, sent >>

\* can_receive returns -1: select or read failed
MainReceiveError ==
    /\ pc = "recv"
    /\ rx_ret' = -1
    /\ pc' = "sleep"
    /\ UNCHANGED << logger, bus, dtc, gw, sock, vehicle, running, clock, now, timers, rx_frame, sent >>

\* a receive step that ticks once more before it answers
MainReceive_AfterTick ==
    /\ pc = "recv"
    /\ vehicle' = update_simulation(vehicle)
    /\ \E f \in RxFrames, u \in ConvKinds, ok \in BOOLEAN :
         /\ rx_frame' = f
         /\ sent' = sent \o process_obd2_request(vehicle', f, u, ok)
    /\ rx_ret' = 1
    /\ pc' = "sleep"
    /\ UNCHANGED << logger, bus, dtc, gw, sock, running, clock, now, timers >>

\* can_receive returns 1 with a frame; process_obd2_request(sock, &rx_frame)
MainReceive ==
    /\ pc = "recv"
    /\ \E f \in RxFrames, u \in ConvKinds, ok \in BOOLEAN :
         /\ rx_frame' = f
         /\ sent' = sent \o process_obd2_request(vehicle, f, u, ok)
    /\ rx_ret' = 1
    /\ pc' = "sleep"
    /\ UNCHANGED << logger, bus, dtc, gw, sock, vehicle, running, clock, now, timers >>

\* sleep_ms(1)
MainSleep ==
    /\ pc = "sleep"
    /\ \E d \in SleepMs :
         /\ clock + d <= MaxClock
         /\ clock' = clock + d
    /\ pc' = "loop"
    /\ UNCHANGED << logger, bus, dtc, gw, sock, vehicle, running, now, timers, rx_ret, rx_frame, sent >>

\* signal_handler: SIGINT or SIGTERM while the process runs
Signal ==
    /\ pc \notin {"exit0", "exit1"}
    /\ running # 0
    /\ running' = 0
    /\ UNCHANGED << logger, bus, dtc, gw, sock, vehicle, pc, clock, now, timers, rx_ret, rx_frame, sent >>

Next ==
    \/ MainOpenFail
    \/ MainOpen
    \/ MainLoop
    \/ MainExit
    \/ MainTick
    \/ MainBroadcast
    \/ MainReceiveTimeout
    \/ MainReceiveError
    \/ MainReceive
    \/ MainSleep
    \/ Signal

Spec == Init /\ [][Next]_vars

\* ------------------------------------------------------------------------
\* The scheduler over a window of passes 1 ms apart: in every iteration
\* can_receive returns at once (a frame is waiting, or select / read fails)
\* and sleep_ms(1) takes its nominal 1 ms.  The window opens at the top of
\* the first iteration (lag 0) or of the second one, which the first sleep
\* delayed by lag ms; sent collects the frames of the whole window.
\* ------------------------------------------------------------------------
WindowMs == 1000

WindowStart == 250
    \* value of the clock at the first pass of the window

WindowLags == {0, 1, 10, 100, 250}

InitSched ==
    /\ \E lag \in WindowLags :
         /\ now = WindowStart - lag
         /\ last_engine1 = WindowStart - lag /\ last_engine2 = WindowStart - lag
         /\ last_trans = WindowStart - lag /\ last_bcm = WindowStart - lag
         /\ vehicle = IF lag = 0 THEN VehicleInit ELSE update_simulation(VehicleInit)
    /\ running = 1
    /\ pc = "tick"
    /\ clock = WindowStart
    /\ rx_ret = 0
    /\ rx_frame = ZeroFrame
    /\ sent = << >>
    /\ sock = "open"
    /\ gw = GwInit
    /\ bus = BusInit
    /\ logger = LoggerInit
    /\ dtc = DtcIdle

\* while (running): the next iteration of the window
SchedLoop ==
    /\ pc = "loop"
    /\ running # 0
    /\ clock <= WindowStart + WindowMs
    /\ pc' = "tick"
    /\ rx_ret' = 0
    /\ rx_frame' = ZeroFrame
    /\ UNCHANGED << logger, bus, dtc, gw, sock, vehicle, running, clock, now, timers, sent >>

\* the four broadcast blocks, every write() succeeding
SchedBroadcast ==
    /\ pc = "sched"
    /\ \E u \in ConvKinds : Broadcast(u, TRUE, TRUE, TRUE, TRUE)
    /\ pc' = "recv"
    /\ UNCHANGED << logger, bus, dtc, gw, sock, vehicle, running, clock, now, rx_ret, rx_frame >>

\* can_receive returns 1 at once with a frame that is no request
SchedReceive ==
    /\ pc = "recv"
    /\ \E f \in OtherFrames, u \in ConvKinds :
         /\ rx_frame' = f
         /\ sent' = sent \o process_obd2_request(vehicle, f, u, TRUE)
    /\ rx_ret' = 1
    /\ pc' = "sleep"
    /\ UNCHANGED << logger, bus, dtc, gw, sock, vehicle, running, clock, now, timers >>

\* sleep_ms(1) takes 1 ms
SchedSleep ==
    /\ pc = "sleep"
    /\ clock' = clock + 1
    /\ pc' = "loop"
    /\ UNCHANGED << logger, bus, dtc, gw, sock, vehicle, running, now, timers, rx_ret, rx_frame, sent >>

NextSched ==
    \/ SchedLoop
    \/ MainTick
    \/ SchedBroadcast
    \/ MainReceiveError
    \/ SchedReceive
    \/ SchedSleep

SpecSched == InitSched /\ [][NextSched]_vars

\* ------------------------------------------------------------------------
\* The main loop over the driving cycles.  An iteration is four steps:
\* the loop test, the part from get_time_ms to the last broadcast block,
\* can_receive with process_obd2_request, and sleep_ms(1).  select waits
\* 1 ms and then times out or, a request having arrived meanwhile, returns
\* it; it returns at once when a request is queued already; sleep_ms(1)
\* sleeps 1 ms; every write() succeeds.  sent holds the frames written in
\* the current iteration.
\* ------------------------------------------------------------------------
SimPids == {0, 12}

SimFrames ==
    { [can_id |-> CAN_ID_OBD_BROADCAST, can_dlc |-> 3,
       data |-> Data8(<< 2, OBD2_MODE_CURRENT_DATA, p >>)] : p \in SimPids }

\* the loop variables at the top of iteration n + 1, n >= 1, of a run that
\* started with the clock at 0: iteration k read now = 2 * (k - 1), and a
\* block has fired whenever now reached a multiple of its period
AfterIterations(n) ==
    /\ clock = 2 * n
    /\ now = 2 * (n - 1)
    /\ last_engine1 = ((2 * (n - 1)) \div ENGINE_CYCLE_MS) * ENGINE_CYCLE_MS
    /\ last_engine2 = ((2 * (n - 1)) \div ENGINE2_CYCLE_MS) * ENGINE2_CYCLE_MS
    /\ last_trans = ((2 * (n - 1)) \div TRANS_CYCLE_MS) * TRANS_CYCLE_MS
    /\ last_bcm = ((2 * (n - 1)) \div BCM_CYCLE_MS) * BCM_CYCLE_MS

InitSim ==
    /\ vehicle = VehicleInit
    /\ running = 1
    /\ pc = "loop"
    /\ clock = 0
    /\ now = 0
    /\ last_engine1 = 0 /\ last_engine2 = 0 /\ last_trans = 0 /\ last_bcm = 0
    /\ rx_ret = 0
    /\ rx_frame = ZeroFrame
    /\ sent = << >>
    /\ sock = "open"
    /\ gw = GwInit
    /\ bus = BusInit
    /\ logger = LoggerInit
    /\ dtc = DtcIdle

\* one broadcast block at time t: the frame it sends, if it is due
Block(t, last, period, frame) == IF t - last >= period THEN << frame >> ELSE << >>

\* its last-fire timestamp afterwards
Stamp(t, last, period) == IF t - last >= period THEN t ELSE last

\* while (running): a new iteration starts.  rx_frame is not read before
\* can_receive overwrites it, so the model forgets it here.
SimLoop ==
    /\ pc = "loop"
    /\ running # 0
    /\ pc' = "tick"
    /\ sent' = << >>
    /\ rx_ret' = 0
    /\ rx_frame' = ZeroFrame
    /\ UNCHANGED << logger, bus, dtc, gw, sock, vehicle, running, clock, now, timers >>

\* now = get_time_ms(); update_simulation(0.001f), which leaves the state v;
\* the four broadcast blocks
SimPass(v, u) ==
    /\ now' = clock
    /\ vehicle' = v
    /\ sent' = Block(clock, last_engine1, ENGINE_CYCLE_MS, send_engine_data_1(v, u, TRUE))
               \o Block(clock, last_engine2, ENGINE2_CYCLE_MS, send_engine_data_2(v, u, TRUE))
               \o Block(clock, last_trans, TRANS_CYCLE_MS, send_trans_data(v, u, TRUE))
               \o Block(clock, last_bcm, BCM_CYCLE_MS, send_bcm_data(v, u, TRUE))
    /\ last_engine1' = Stamp(clock, last_engine1, ENGINE_CYCLE_MS)
    /\ last_engine2' = Stamp(clock, last_engine2, ENGINE2_CYCLE_MS)
    /\ last_trans' = Stamp(clock, last_trans, TRANS_CYCLE_MS)
    /\ last_bcm' = Stamp(clock, last_bcm, BCM_CYCLE_MS)
    /\ pc' = "recv"
    /\ UNCHANGED << logger, bus, dtc, gw, sock, running, clock, rx_ret, rx_frame >>

\* sim_time k ticks after t
RECURSIVE TimeAfter(_, _)
TimeAfter(t, k) == IF k = 0 THEN t ELSE TimeAfter(FloatAdd(t, Lit.f0_001), k - 1)

\* MaxQueuedMs after the clock was c0 and sim_time t0, the iterations so far
\* have taken 2 ms each
OnSchedule(c0, t0) ==
    clock - c0 \in {MaxQueuedMs, MaxQueuedMs + 1}
    => /\ (clock - c0) % 2 = 0
       /\ vehicle.sim_time = TimeAfter(t0, (clock - c0) \div 2)

\* ------------------------------------------------------------------------
\* The run is followed over three stretches: its first MaxSimMs ms (a whole
\* driving cycle and the start of the second), the seconds around the first
\* refill of the tank at sim_time = 5000, and the last seconds before
\* sim_time stops moving at 32768.
\*
\* Between 4096 and 8192 a tick moves sim_time by two units in the last
\* place (2^-10); 4998.0f is the value after tick 5103023 of a run from the
\* initial state.  From 16384 on, 0.001f is more than half a unit in the
\* last place (2^-9), so every tick moves sim_time to the next binary32
\* value; 32759.0f is the value after tick 25146287, and tick 25150895
\* reaches 32768.0f, where the unit is 2^-8.
\* ------------------------------------------------------------------------
RefillStart == 1167863808
    \* bit pattern of 4998.0f

RefillIterations == 5103023
    \* iterations of the main loop before sim_time = RefillStart

LateStart == 1191177728
    \* bit pattern of 32759.0f, 9 s (4608 ticks) before 32768.0f

LateIterations == 25146287
    \* iterations of the main loop before sim_time = LateStart

\* the stretch of the run in which the state v lies is followed further
InWindow(v) ==
    \/ SimTimeMs(v.sim_time) < MaxSimMs
    \/ v.sim_time >= RefillStart /\ SimTimeMs(v.sim_time) < MaxRefillMs
    \/ v.sim_time >= LateStart /\ clock < MaxLateClock

\* the top of an iteration up to can_receive
SimTick ==
    /\ pc = "tick"
    /\ InWindow(vehicle)
    /\ OnSchedule(0, VehicleInit.sim_time)
    /\ \E v \in {update_simulation(vehicle)}, u \in ConvKinds : SimPass(v, u)

\* can_receive returns 0: select timed out after its 1 ms
SimReceiveTimeout ==
    /\ pc = "recv"
    /\ clock' = clock + 1
    /\ rx_ret' = 0
    /\ pc' = "sleep"
    /\ UNCHANGED << logger, bus, dtc, gw, sock, vehicle, running, now, timers, rx_frame, sent >>

\* can_receive returns 1 with a request after select has waited for it
\* for wait ms; process_obd2_request answers it
SimAnswer(wait) ==
    /\ pc = "recv"
    /\ \E f \in SimFrames, u \in ConvKinds :
         /\ rx_frame' = f
         /\ sent' = sent \o process_obd2_request(vehicle, f, u, TRUE)
    /\ rx_ret' = 1
    /\ clock' = clock + wait
    /\ pc' = "sleep"
    /\ UNCHANGED << logger, bus, dtc, gw, sock, vehicle, running, now, timers >>

\* the request arrives while select waits its 1 ms
SimReceive == SimAnswer(1)

\* the request is queued already and select returns at once; c0 is the
\* value of the clock in the initial state
SimReceiveQueued(c0) ==
    /\ clock - c0 < MaxQueuedMs
    /\ SimAnswer(0)

\* sleep_ms(1) takes its 1 ms
SimSleep ==
    /\ pc = "sleep"
    /\ clock' = clock + 1
    /\ pc' = "loop"
    /\ UNCHANGED << logger, bus, dtc, gw, sock, vehicle, running, now, timers, rx_ret, rx_frame, sent >>

NextSim ==
    SimLoop \/ SimTick \/ SimReceiveTimeout \/ SimReceive \/ SimReceiveQueued(0)
        \/ SimSleep

\* the vehicle state after 31000 iterations of the run from InitSim.
\* update_simulation sets every field but the odometer from sim_time alone
\* and the odometer has not moved, so the state after a tick is the one the
\* tick computes from the sim_time before it.
VehicleHalfway ==
    [ rpm |-> 1159650600, coolant_temp |-> 1118837155, throttle |-> 1103956706,
      maf |-> 1094325850, engine_load |-> 1106512053, intake_temp |-> 1106247098,
      gear |-> 6, trans_temp |-> 1117270947, fuel_level |-> 1117086031,
      odometer |-> 45231, vehicle_speed |-> 1120293137, sim_time |-> 1106769134 ]

\* the vehicle state at RefillStart
VehicleRefill ==
    [ rpm |-> 1161691136, coolant_temp |-> 1118068250, throttle |-> 1113762475,
      maf |-> 1103747875, engine_load |-> 1113412950, intake_temp |-> 1101031704,
      gear |-> 3, trans_temp |-> 1117921826, fuel_level |-> 1103636726,
      odometer |-> 45231, vehicle_speed |-> 1115684864, sim_time |-> 1167863808 ]

\* the vehicle state at LateStart
VehicleLate ==
    [ rpm |-> 1147426134, coolant_temp |-> 1119434415, throttle |-> 1070945620,
      maf |-> 1069989320, engine_load |-> 1094014293, intake_temp |-> 1101202140,
      gear |-> 2, trans_temp |-> 1116768393, fuel_level |-> 1111335896,
      odometer |-> 45231, vehicle_speed |-> 1087722836, sim_time |-> 1191177728 ]

\* the state of the run from InitSim at the top of iteration n + 1, the
\* vehicle state being v: the iterations have taken 2 ms each and the last
\* one has sent nothing and received nothing
InitAfter(n, v) ==
    /\ vehicle = v
    /\ running = 1
    /\ pc = "loop"
    /\ AfterIterations(n)
    /\ rx_ret = 0
    /\ rx_frame = ZeroFrame
    /\ sent = << >>
    /\ sock = "open"
    /\ gw = GwInit
    /\ bus = BusInit
    /\ logger = LoggerInit
    /\ dtc = DtcIdle

InitHalfway == InitAfter(31000, VehicleHalfway)

InitRefill == InitAfter(RefillIterations, VehicleRefill)

InitLate == InitAfter(LateIterations, VehicleLate)

\* the first stretch is searched from the start of the run and from its
\* state halfway, where the first search ends
SpecSim == (InitSim \/ InitHalfway \/ InitRefill \/ InitLate) /\ [][NextSim]_vars

\* the vehicle states above are the ones a tick computes from the sim_time
\* before them
StartsAreComputed ==
    /\ (pc = "loop" /\ clock = 2 * 31000)
       => vehicle = update_simulation([VehicleInit EXCEPT !.sim_time = 1106768610])
    /\ (pc = "loop" /\ clock = 2 * RefillIterations)
       => vehicle = update_simulation([VehicleInit EXCEPT !.sim_time = RefillStart - 2])
    /\ (pc = "loop" /\ clock = 2 * LateIterations)
       => vehicle = update_simulation([VehicleInit EXCEPT !.sim_time = LateStart - 1])

\* ------------------------------------------------------------------------
\* The encoders and the Mode 01 response builder as functions of the vehicle
\* state: the state is drawn from a grid of field values and one encoder or
\* one request is applied to it.  The grids are in hundredths of the unit; a
\* field holds the binary32 nearest to the grid value.  maf is given as
\* n / d and holds the binary32 nearest to the quotient.
\* ------------------------------------------------------------------------
RpmInputs == {0, 25, 75000, 80000, 199999, 200000, 200024, 200025, 200099,
              500000, 1638375, 1638400, 1750000}
TempInputs == {-4000, 8500, 8599, 21500, 21600, 30000}
PercentInputs == {0, 1500, 3999, 10000, 10100}

\* maf, vehicle_speed, gear and odometer, drawn together
OtherInputs ==
    { [maf |-> << 0, 100 >>, vehicle_speed |-> 0, gear |-> 0, odometer |-> 0],
      [maf |-> << 500, 100 >>, vehicle_speed |-> 0, gear |-> 0, odometer |-> 45231],
      [maf |-> << 53, 100 >>, vehicle_speed |-> 0, gear |-> 1, odometer |-> 45231],
      [maf |-> << 5337, 100 >>, vehicle_speed |-> 12099, gear |-> 6,
       odometer |-> 16777216],
      \* 16.039999008..., the binary32 next below 16.04f
      [maf |-> << 16039999, 1000000 >>, vehicle_speed |-> 12099, gear |-> 5,
       odometer |-> 45231],
      [maf |-> << 65535, 100 >>, vehicle_speed |-> 25500, gear |-> 7,
       odometer |-> 2147483647],
      [maf |-> << 70000, 100 >>, vehicle_speed |-> 30000, gear |-> 3,
       odometer |-> 45231] }

\* every PID a supported-PID bitmap can name, and two beyond
CodecPids == 0..32 \cup {47, 255}

InitCodec ==
    /\ \E r \in RpmInputs, t \in TempInputs, q \in PercentInputs, o \in OtherInputs :
         vehicle = [VehicleInit EXCEPT !.rpm = FloatLit(r, 100),
                                       !.coolant_temp = FloatLit(t, 100),
                                       !.intake_temp = FloatLit(t, 100),
                                       !.trans_temp = FloatLit(t, 100),
                                       !.throttle = FloatLit(q, 100),
                                       !.engine_load = FloatLit(q, 100),
                                       !.fuel_level = FloatLit(q, 100),
                                       !.maf = FloatLit(o.maf[1], o.maf[2]),
                                       !.vehicle_speed = FloatLit(o.vehicle_speed, 100),
                                       !.gear = o.gear, !.odometer = o.odometer]
    /\ running = 1
    /\ pc = "codec"
    /\ clock = 0
    /\ now = 0
    /\ last_engine1 = 0 /\ last_engine2 = 0 /\ last_trans = 0 /\ last_bcm = 0
    /\ rx_ret = 0
    /\ rx_frame = ZeroFrame
    /\ sent = << >>
    /\ sock = "open"
    /\ gw = GwInit
    /\ bus = BusInit
    /\ logger = LoggerInit
    /\ dtc = DtcIdle

\* a Mode 01 request for pid is processed against the state
CodecRequest ==
    /\ pc = "codec"
    /\ \E p \in CodecPids, u \in ConvKinds :
         /\ rx_frame' = [can_id |-> CAN_ID_OBD_ECU_ENGINE, can_dlc |-> 3,
                         data |-> Data8(<< 2, OBD2_MODE_CURRENT_DATA, p >>)]
         /\ sent' = process_obd2_request(vehicle, rx_frame', u, TRUE)
    /\ rx_ret' = 1
    /\ pc' = "done"
    /\ UNCHANGED << logger, bus, dtc, gw, sock, vehicle, running, clock, now, timers >>

\* the four broadcast frames are encoded from the state
CodecBroadcast ==
    /\ pc = "codec"
    /\ \E u \in ConvKinds :
         sent' = << send_engine_data_1(vehicle, u, TRUE),
                    send_engine_data_2(vehicle, u, TRUE),
                    send_trans_data(vehicle, u, TRUE),
                    send_bcm_data(vehicle, u, TRUE) >>
    /\ pc' = "done"
    /\ UNCHANGED << logger, bus, dtc, gw, sock, vehicle, running, clock, now, timers, rx_ret, rx_frame >>

NextCodec == CodecRequest \/ CodecBroadcast

SpecCodec == InitCodec /\ [][NextCodec]_vars

\* ------------------------------------------------------------------------
\* The OBD-II gateway process: main().  An iteration of its loop is the
\* loop test, select with read and process_obd2_request, and
\* update_simulation; the handler can run between any two of them.  rx_ret,
\* rx_frame and sent describe the current iteration.
\* ------------------------------------------------------------------------
MaxGwTicks == 60
    \* an iteration starts while update_simulation has run fewer times

\* outcomes of the three calls rand() % 100, rand() % 6 and rand() % 10 of
\* one update_simulation
GwRands == { << 0, 0, 0 >>, << 99, 5, 9 >>, << 50, 0, 9 >> }

GwLens == {1, 2}
GwModes == {1, 3}
\* every PID the two supported-PID bitmaps can name, and one beyond
GwPids == 0..64 \cup {255}

\* the frames that pass the gateway's filter (0x7DF, 0x7E0): a Mode 01
\* request for each PID, and the other identifier, lengths and modes for
\* two of them
GwFrames ==
    { [can_id |-> CAN_ID_OBD_BROADCAST, can_dlc |-> 8,
       data |-> Data8(<< 2, OBD2_MODE_CURRENT_DATA, p >>)] : p \in GwPids }
    \cup
    { [can_id |-> id, can_dlc |-> 8, data |-> Data8(<< n, m, p >>)] :
        id \in ReqIds, n \in GwLens, m \in GwModes, p \in {12, 255} }

\* the step of setup_can_socket that can fail
GwSetupFailures == {"socket", "ioctl", "bind", "setsockopt"}

InitGw ==
    /\ vehicle = VehicleInit
    /\ running = 1
    /\ pc = "gw_start"
    /\ clock = 0
    /\ now = 0
    /\ last_engine1 = 0 /\ last_engine2 = 0 /\ last_trans = 0 /\ last_bcm = 0
    /\ rx_ret = 0
    /\ rx_frame = ZeroFrame
    /\ sent = << >>
    /\ sock = "none"
    /\ gw = GwInit
    /\ bus = BusInit
    /\ logger = LoggerInit
    /\ dtc = DtcIdle

\* setup_can_socket succeeds
GwSetup ==
    /\ pc = "gw_start"
    /\ sock' = "open"
    /\ pc' = "gw_loop"
    /\ UNCHANGED << logger, bus, dtc, gw, vehicle, running, clock, now, timers, rx_ret, rx_frame, sent >>

\* setup_can_socket fails: main returns 1
GwSetupFail ==
    /\ pc = "gw_start"
    /\ \E k \in GwSetupFailures :
         sock' = IF k = "socket" THEN "none" ELSE "closed"
    /\ pc' = "gw_exit1"
    /\ UNCHANGED << logger, bus, dtc, gw, vehicle, running, clock, now, timers, rx_ret, rx_frame, sent >>

\* while (running): a new iteration starts
GwLoop ==
    /\ pc = "gw_loop"
    /\ running # 0
    /\ gw.tick < MaxGwTicks
    /\ pc' = "gw_select"
    /\ rx_ret' = 0
    /\ rx_frame' = ZeroFrame
    /\ sent' = << >>
    /\ UNCHANGED << logger, bus, dtc, gw, sock, vehicle, running, clock, now, timers >>

\* no frame: select times out or is interrupted (EINTR), or read returns
\* fewer bytes than a frame
GwIdle ==
    /\ pc = "gw_select"
    /\ rx_ret' = 0
    /\ pc' = "gw_update"
    /\ UNCHANGED << logger, bus, dtc, gw, sock, vehicle, running, clock, now, timers, rx_frame, sent >>

\* read fails: "continue", update_simulation is skipped
GwReadFail ==
    /\ pc = "gw_select"
    /\ rx_ret' = -1
    /\ pc' = "gw_loop"
    /\ UNCHANGED << logger, bus, dtc, gw, sock, vehicle, running, clock, now, timers, rx_frame, sent >>

\* a frame is read and process_obd2_request handles it
GwReceive ==
    /\ pc = "gw_select"
    /\ \E f \in GwFrames, ok \in BOOLEAN :
         /\ rx_frame' = f
         /\ sent' = gw_process_obd2_request(gw, f, ok)
    /\ rx_ret' = 1
    /\ pc' = "gw_update"
    /\ UNCHANGED << logger, bus, dtc, gw, sock, vehicle, running, clock, now, timers >>

\* update_simulation at the end of the iteration
GwUpdate ==
    /\ pc = "gw_update"
    /\ \E r \in GwRands : gw' = gw_update_simulation(gw, r[1], r[2], r[3])
    /\ pc' = "gw_loop"
    /\ UNCHANGED << logger, bus, dtc, sock, vehicle, running, clock, now, timers, rx_ret, rx_frame, sent >>

\* select fails with an error other than EINTR (break), or while (running)
\* fails: close(can_socket); return 0
GwExit ==
    /\ \/ pc = "gw_select"
       \/ pc = "gw_loop" /\ running = 0
    /\ sock' = "closed"
    /\ pc' = "gw_exit0"
    /\ UNCHANGED << logger, bus, dtc, gw, vehicle, running, clock, now, timers, rx_ret, rx_frame, sent >>

\* the gateway's signal_handler
GwSignal ==
    /\ pc \in {"gw_start", "gw_loop", "gw_select", "gw_update"}
    /\ running # 0
    /\ running' = 0
    /\ UNCHANGED << logger, bus, dtc, gw, sock, vehicle, pc, clock, now, timers, rx_ret, rx_frame, sent >>

NextGw ==
    \/ GwSetup
    \/ GwSetupFail
    \/ GwLoop
    \/ GwIdle
    \/ GwReadFail
    \/ GwReceive
    \/ GwUpdate
    \/ GwExit
    \/ GwSignal

SpecGw == InitGw /\ [][NextGw]_vars

\* ------------------------------------------------------------------------
\* A caller of the DTC functions: dtc_encode on a five-character string,
\* then dtc_decode on the two bytes of its buffers.
\* ------------------------------------------------------------------------
\* first characters: P C B U, p, and X, 0 (no category)
DtcLetters == {80, 67, 66, 85, 112, 88, 48}

\* second characters: 0..4, 9 and A
DtcFirstDigits == 48..52 \cup {57, 65}

\* third to fifth characters: 0..9 and A
DtcDigits == 48..57 \cup {65}

\* what the output buffers hold before the call
DtcBufferInit == << 170, 85 >>

InitDtc ==
    /\ vehicle = VehicleInit
    /\ running = 1
    /\ pc = "dtc_in"
    /\ clock = 0
    /\ now = 0
    /\ last_engine1 = 0 /\ last_engine2 = 0 /\ last_trans = 0 /\ last_bcm = 0
    /\ rx_ret = 0
    /\ rx_frame = ZeroFrame
    /\ sent = << >>
    /\ sock = "none"
    /\ gw = GwInit
    /\ bus = BusInit
    /\ logger = LoggerInit
    /\ \E c \in DtcLetters, d1 \in DtcFirstDigits, d2 \in DtcDigits,
          d3 \in DtcDigits, d4 \in DtcDigits :
         dtc = [str |-> << c, d1, d2, d3, d4 >>, ret |-> 0,
                byte1 |-> DtcBufferInit[1], byte2 |-> DtcBufferInit[2],
                out |-> << >>]

\* ret = dtc_encode(str, &byte1, &byte2)
DtcEncode ==
    /\ pc = "dtc_in"
    /\ LET r == dtc_encode(dtc.str, dtc.byte1, dtc.byte2)
       IN dtc' = [dtc EXCEPT !.ret = r.ret, !.byte1 = r.byte1, !.byte2 = r.byte2]
    /\ pc' = "dtc_enc"
    /\ UNCHANGED << logger, bus, gw, sock, vehicle, running, clock, now, timers,
                    rx_ret, rx_frame, sent >>

\* dtc_decode(byte1, byte2, out)
DtcDecode ==
    /\ pc = "dtc_enc"
    /\ dtc' = [dtc EXCEPT !.out = dtc_decode(dtc.byte1, dtc.byte2)]
    /\ pc' = "dtc_dec"
    /\ UNCHANGED << logger, bus, gw, sock, vehicle, running, clock, now, timers,
                    rx_ret, rx_frame, sent >>

NextDtc == DtcEncode \/ DtcDecode

SpecDtc == InitDtc /\ [][NextDtc]_vars

\* ------------------------------------------------------------------------
\* The ECU simulator and the gateway as two processes on vcan0, and a tester
\* that writes requests.  pc is the position of the ECU simulator's main,
\* whose iteration is three steps: the part from get_time_ms to the last
\* broadcast block, can_receive with process_obd2_request, and sleep_ms(1);
\* select and sleep_ms(1) take 1 ms each and every write() succeeds.  A step
\* of the gateway is one iteration of its loop.  The ECU simulator has been
\* running for 49 iterations of 2 ms when the gateway starts.
\* ------------------------------------------------------------------------
MaxBusMs == 51
    \* simulated time of the ECU simulator, in ms
MaxBusGwTicks == 2
    \* iterations of the gateway
MaxBusRequests == 2
    \* requests the tester writes

BusPids == {0, 12, 13, 32, 47, 255}

\* what the tester writes: Mode 01 requests on the functional identifier
BusRequests ==
    { [can_id |-> CAN_ID_OBD_BROADCAST, can_dlc |-> 8,
       data |-> Data8(<< 2, OBD2_MODE_CURRENT_DATA, p >>)] : p \in BusPids }

\* the frames of s that write() put on the bus
Written(s) ==
    LET good == SelectSeq(s, LAMBDA f : f.ok)
    IN [i \in 1..Len(good) |->
          [can_id |-> good[i].can_id, can_dlc |-> good[i].can_dlc,
           data |-> good[i].data]]

\* the CAN_RAW_FILTER of the gateway's socket
GwFilter(s) ==
    SelectSeq(s, LAMBDA f : f.can_id \in {CAN_ID_OBD_BROADCAST, CAN_ID_OBD_ECU_ENGINE})

\* the positions of the ECU simulator's main inside its loop
BusPcs == {"bus_tick", "bus_recv", "bus_sleep"}

\* the vehicle state after 49 ticks of a run from the initial state
VehicleBus ==
    [ rpm |-> 1145649433, coolant_temp |-> 1118438018, throttle |-> 0,
      maf |-> 1067092495, engine_load |-> 1092616192, intake_temp |-> 1103632663,
      gear |-> 0, trans_temp |-> 1116733440, fuel_level |-> 1117126592,
      odometer |-> 45231, vehicle_speed |-> 0, sim_time |-> 1028174898 ]

\* the ECU simulator has run 49 iterations of 2 ms without a request, the
\* gateway and the tester have just started
InitBus ==
    /\ vehicle = VehicleBus
    /\ running = 1
    /\ pc = "bus_tick"
    /\ AfterIterations(49)
    /\ rx_ret = 0
    /\ rx_frame = ZeroFrame
    /\ sent = << >>
    /\ sock = "open"
    /\ gw = GwInit
    /\ dtc = DtcIdle
    /\ bus = BusInit
    /\ logger = LoggerInit

\* the tester writes a request once both services have read what was
\* written before; both sockets receive it
BusRequest ==
    /\ pc \in BusPcs
    /\ bus.ecu_q = << >> /\ bus.gw_q = << >>
    /\ Len(SelectSeq(bus.frames, LAMBDA f : f.can_id = CAN_ID_OBD_BROADCAST))
         < MaxBusRequests
    /\ \E f \in BusRequests :
         bus' = [frames |-> Append(bus.frames, f), ecu_q |-> << f >>,
                 gw_q |-> GwFilter(<< f >>)]
    /\ UNCHANGED << logger, dtc, gw, sock, vehicle, running, pc, clock, now, timers,
                    rx_ret, rx_frame, sent >>

\* the bus after the ECU simulator has written the frames s
OnBus(s) ==
    [frames |-> bus.frames \o Written(s),
     ecu_q |-> bus.ecu_q,
     gw_q |-> bus.gw_q \o GwFilter(Written(s))]

\* the ECU simulator from the loop test to the last broadcast block:
\* now = get_time_ms(), update_simulation, which leaves the state v, and
\* the four blocks, whose frames reach the bus and the gateway's socket
BusEcuPass(v, u) ==
    /\ now' = clock
    /\ vehicle' = v
    /\ sent' = Block(clock, last_engine1, ENGINE_CYCLE_MS, send_engine_data_1(v, u, TRUE))
               \o Block(clock, last_engine2, ENGINE2_CYCLE_MS, send_engine_data_2(v, u, TRUE))
               \o Block(clock, last_trans, TRANS_CYCLE_MS, send_trans_data(v, u, TRUE))
               \o Block(clock, last_bcm, BCM_CYCLE_MS, send_bcm_data(v, u, TRUE))
    /\ bus' = OnBus(sent')
    /\ last_engine1' = Stamp(clock, last_engine1, ENGINE_CYCLE_MS)
    /\ last_engine2' = Stamp(clock, last_engine2, ENGINE2_CYCLE_MS)
    /\ last_trans' = Stamp(clock, last_trans, TRANS_CYCLE_MS)
    /\ last_bcm' = Stamp(clock, last_bcm, BCM_CYCLE_MS)
    /\ pc' = "bus_recv"
    /\ UNCHANGED << logger, dtc, gw, sock, running, clock, rx_ret, rx_frame >>

BusEcu ==
    /\ pc = "bus_tick"
    /\ running # 0
    /\ SimTimeMs(vehicle.sim_time) < MaxBusMs
    /\ \E v \in {update_simulation(vehicle)}, u \in ConvKinds : BusEcuPass(v, u)

\* can_receive of the ECU simulator: select times out after 1 ms on an
\* empty queue; a frame in the queue, there already or arrived while
\* select waited, is read and handed to process_obd2_request, whose write
\* reaches the bus and the gateway's socket
BusEcuReceive ==
    /\ pc = "bus_recv"
    /\ IF bus.ecu_q = << >>
       THEN /\ rx_ret' = 0
            /\ clock' = clock + 1
            /\ UNCHANGED << rx_frame, sent, bus >>
       ELSE /\ rx_ret' = 1
            /\ rx_frame' = Head(bus.ecu_q)
            /\ \E wait \in {0, 1} : clock' = clock + wait
            /\ \E u \in ConvKinds :
                 LET out == process_obd2_request(vehicle, Head(bus.ecu_q), u, TRUE)
                 IN /\ sent' = sent \o out
                    /\ bus' = [OnBus(out) EXCEPT !.ecu_q = Tail(bus.ecu_q)]
    /\ pc' = "bus_sleep"
    /\ UNCHANGED << logger, dtc, gw, sock, vehicle, running, now, timers >>

\* sleep_ms(1) of the ECU simulator
BusEcuSleep ==
    /\ pc = "bus_sleep"
    /\ clock' = clock + 1
    /\ pc' = "bus_tick"
    /\ UNCHANGED << logger, bus, dtc, gw, sock, vehicle, running, now, timers, rx_ret,
                    rx_frame, sent >>

\* an iteration of the gateway: select and read, process_obd2_request for a
\* frame, then update_simulation; its writes reach the bus and the ECU
\* simulator's socket
BusGw ==
    /\ pc \in BusPcs
    /\ gw.tick < MaxBusGwTicks
    /\ \E r \in GwRands : gw' = gw_update_simulation(gw, r[1], r[2], r[3])
    /\ IF bus.gw_q = << >>
       THEN UNCHANGED bus
       ELSE LET out == Written(gw_process_obd2_request(gw, Head(bus.gw_q), TRUE))
            IN bus' = [frames |-> bus.frames \o out,
                       ecu_q |-> bus.ecu_q \o out,
                       gw_q |-> Tail(bus.gw_q)]
    /\ UNCHANGED << logger, dtc, sock, vehicle, running, pc, clock, now, timers,
                    rx_ret, rx_frame, sent >>

NextBus == BusRequest \/ BusEcu \/ BusEcuReceive \/ BusEcuSleep \/ BusGw

SpecBus == InitBus /\ [][NextBus]_vars

\* VehicleBus is the state a tick computes from the sim_time after 48 ticks,
\* 0.0479999743
BusIsComputed ==
    (pc = "bus_tick" /\ clock = 2 * 49)
    => vehicle = update_simulation([VehicleInit EXCEPT !.sim_time = 1027906463])

\* ------------------------------------------------------------------------
\* The logger process: main().  It is followed where files rotate: at its
\* start, shortly before a file reaches MAX_LOG_SIZE and shortly after.
\* ------------------------------------------------------------------------
MaxLogFileNum == 7
    \* highest file number a run begins with
MaxLogBytes == 150
    \* bytes followed into a new file

\* frames of 8 data bytes that fill a file up to 72 bytes below MAX_LOG_SIZE
LogNearFullFrames == 169124

\* frames of 8 data bytes written while one file is current: the one that
\* finds bytes_logged >= MAX_LOG_SIZE opens the next file
LogFramesPerFile == 169126

\* data lengths of the frames read
LogLens == {0, 8}

\* a first start on an empty directory, or a run whose n-th file is
\* nearly full after frames of 8 data bytes and successful rotations
InitLog ==
    /\ vehicle = VehicleInit
    /\ running = 1
    /\ clock = 0
    /\ now = 0
    /\ last_engine1 = 0 /\ last_engine2 = 0 /\ last_trans = 0 /\ last_bcm = 0
    /\ rx_ret = 0
    /\ rx_frame = ZeroFrame
    /\ sent = << >>
    /\ gw = GwInit
    /\ dtc = DtcIdle
    /\ bus = BusInit
    /\ \/ /\ pc = "log_start" /\ sock = "none" /\ logger = LoggerInit
       \/ /\ pc = "log_loop" /\ sock = "open"
          /\ \E n \in 1..MaxLogFileNum :
               logger = [ log_file |-> "open",
                          bytes_logged |-> LogNearFullFrames * LogLineBytes(8),
                          frame_count |-> (n - 1) * LogFramesPerFile + LogNearFullFrames,
                          current_file_num |-> n,
                          dir |-> { k \in 1..n : k > n - MAX_LOG_FILES },
                          wrote |-> "file" ]

\* the step of the logger's setup_can_socket that can fail
LogSetupFailures == {"socket", "ioctl", "bind"}

\* setup_can_socket fails, after close(can_socket) if the socket had been
\* created; main returns 1
LogSetupFail ==
    /\ pc = "log_start"
    /\ \E k \in LogSetupFailures :
         sock' = IF k = "socket" THEN "none" ELSE "closed"
    /\ pc' = "log_exit1"
    /\ UNCHANGED << logger, bus, dtc, gw, vehicle, running, clock, now, timers, rx_ret,
                    rx_frame, sent >>

\* setup_can_socket succeeds, then open_log_file: main returns 1 if it
\* fails (the socket stays open) and enters the loop otherwise
LogStart ==
    /\ pc = "log_start"
    /\ sock' = "open"
    /\ \E ok \in BOOLEAN :
         /\ logger' = open_log_file(logger, ok).l
         /\ pc' = IF open_log_file(logger, ok).ret < 0 THEN "log_exit1" ELSE "log_loop"
    /\ UNCHANGED << bus, dtc, gw, vehicle, running, clock, now, timers, rx_ret,
                    rx_frame, sent >>

\* while (running): the next read
LogLoop ==
    /\ pc = "log_loop"
    /\ running # 0
    /\ \/ logger.bytes_logged < MaxLogBytes
       \/ logger.bytes_logged >= LogNearFullFrames * LogLineBytes(8)
    /\ pc' = "log_read"
    /\ UNCHANGED << logger, bus, dtc, gw, sock, vehicle, running, clock, now, timers,
                    rx_ret, rx_frame, sent >>

\* read returns a frame (a read the handler interrupted is restarted and
\* returns the next frame): log_frame
LogFrame ==
    /\ pc = "log_read"
    /\ \E len \in LogLens, ok \in BOOLEAN, ub \in LogUbKinds :
         /\ logger' = log_frame(logger, len, ok, ub)
         /\ pc' = IF logger'.wrote = "null" /\ ub = "crash" THEN "log_crashed"
                  ELSE "log_loop"
    /\ UNCHANGED << bus, dtc, gw, sock, vehicle, running, clock, now, timers, rx_ret,
                    rx_frame, sent >>

\* read is interrupted (EINTR: continue) or returns fewer bytes than a
\* frame: nothing is logged
LogIdle ==
    /\ pc = "log_read"
    /\ pc' = "log_loop"
    /\ UNCHANGED << logger, bus, dtc, gw, sock, vehicle, running, clock, now, timers,
                    rx_ret, rx_frame, sent >>

\* the logger's signal_handler
LogSignal ==
    /\ pc \in {"log_start", "log_loop", "log_read"}
    /\ running # 0
    /\ running' = 0
    /\ UNCHANGED << logger, bus, dtc, gw, sock, vehicle, pc, clock, now, timers,
                    rx_ret, rx_frame, sent >>

\* read fails (break) or while (running) fails: fclose(log_file),
\* close(can_socket), return 0
LogStop ==
    /\ \/ pc = "log_read"
       \/ pc = "log_loop" /\ running = 0
    /\ logger' = [logger EXCEPT !.log_file = IF @ = "open" THEN "closed" ELSE @]
    /\ sock' = "closed"
    /\ pc' = "log_exit0"
    /\ UNCHANGED << bus, dtc, gw, vehicle, running, clock, now, timers, rx_ret,
                    rx_frame, sent >>

\* the service is started again: a new process with fresh statics finds
\* the directory as the last one left it
LogRestart ==
    /\ pc \in {"log_exit0", "log_exit1", "log_crashed"}
    /\ logger' = [LoggerInit EXCEPT !.dir = logger.dir]
    /\ running' = 1
    /\ sock' = "none"
    /\ pc' = "log_start"
    /\ UNCHANGED << bus, dtc, gw, vehicle, clock, now, timers, rx_ret, rx_frame, sent >>

NextLog ==
    \/ LogSetupFail
    \/ LogStart
    \/ LogLoop
    \/ LogFrame
    \/ LogIdle
    \/ LogSignal
    \/ LogStop
    \/ LogRestart

SpecLog == InitLog /\ [][NextLog]_vars

\* ========================================================================
\* Properties
\* ========================================================================
\* the frames of the current iteration sent on the engine response identifier
Responses == SelectSeq(sent, LAMBDA x : x.can_id = CAN_ID_OBD_RESP_ENGINE)

\* a frame was received in this iteration and process_obd2_request has run
Processed == pc = "sleep" /\ rx_ret = 1

OnRequestId(f) == f.can_id = 2015 \/ f.can_id = 2016

\* a Mode 01 request as the claims define it: request identifier, at least
\* 2 payload bytes, mode byte 0x01
ValidMode01(f) == OnRequestId(f) /\ f.can_dlc >= 2 /\ f.data[2] = 1

\* the PIDs with a case of their own in the simulator's dispatch
SupportedPids == {0, 4, 5, 12, 13, 15, 16, 17, 47}

\* C1: a Mode 01 request carrying a PID byte that is not a supported PID is
\* answered by exactly one can_send, on 0x7E8, with DLC 4 and payload
\* [0x03, 0x7F, 0x01, 0x12].
C1_UnsupportedPidAnswered ==
    (Processed /\ ValidMode01(rx_frame) /\ rx_frame.can_dlc >= 3
        /\ rx_frame.data[3] \notin SupportedPids)
    => /\ Len(Responses) = 1
       /\ Responses[1].can_id = 2024
       /\ Responses[1].can_dlc = 4
       /\ Responses[1].data = << 3, 127, 1, 18, 0, 0, 0, 0 >>

C1_Witness ==
    /\ Processed
    /\ rx_frame.can_id = 2015 /\ rx_frame.can_dlc = 3
    /\ rx_frame.data[2] = 1 /\ rx_frame.data[3] = 255
    /\ Len(Responses) = 1 /\ Responses[1].ok
    /\ Responses[1].data[2] = 127

\* C2 (as claimed): a Mode 01 request for PID 0x20 gets a positive response
\* (byte1 = 0x41, byte2 = 0x20) carrying the supported-PID bitmap.
C2_Pid20Positive ==
    (Processed /\ ValidMode01(rx_frame) /\ rx_frame.can_dlc >= 3
        /\ rx_frame.data[3] = 32)
    => /\ Len(Responses) = 1
       /\ Responses[1].data[2] = 65
       /\ Responses[1].data[3] = 32

\* the one frame every PID 0x00 request is answered with
BitmapFrame ==
    [can_id |-> 2024, can_dlc |-> 7, data |-> << 6, 65, 0, 24, 62, 128, 0, 0 >>,
     ok |-> TRUE]

\* C3: whatever the vehicle state (any tick of the driving cycles), the
\* response to {mode 0x01, pid 0x00} is the same frame: identifier, length
\* and all payload bytes.
C3_BitmapStateIndependent ==
    (pc \in {"sleep", "loop"} /\ rx_ret = 1 /\ rx_frame.data[2] = 1 /\ rx_frame.data[3] = 0)
    => Responses = << BitmapFrame >>

C3_Witness ==
    /\ pc = "sleep" /\ rx_ret = 1 /\ rx_frame.data[3] = 0
    /\ Phase(fmodf(vehicle.sim_time, Lit.f60)) = "Cruise"
    /\ SimTimeMs(vehicle.sim_time) > 40000
    /\ vehicle.rpm # VehicleInit.rpm /\ vehicle.engine_load # VehicleInit.engine_load
    /\ Responses = << BitmapFrame >>

\* C4 (as claimed): a frame whose declared length (payload byte 0) is below 2
\* gets no response, whatever its DLC and other bytes.
C4_DeclaredLengthDropped ==
    (Processed /\ OnRequestId(rx_frame) /\ rx_frame.data[1] < 2)
    => Responses = << >>

\* C5: receiving a frame on 0x7DF / 0x7E0 with DLC 0 or 1 sends nothing,
\* leaves the vehicle state alone and goes on to the sleep of the iteration
\* with the shutdown flag untouched.
C5_ShortFrameDropped ==
    [][ (pc = "recv" /\ rx_ret' = 1 /\ OnRequestId(rx_frame') /\ rx_frame'.can_dlc < 2)
        => (sent' = sent /\ vehicle' = vehicle /\ pc' = "sleep"
            /\ running' = running) ]_vars

C5_Witness ==
    /\ Processed
    /\ rx_frame.can_id = 2016 /\ rx_frame.can_dlc = 1
    /\ rx_frame.data[2] = 1
    /\ Responses = << >>

\* C6: a request whose mode byte is not 0x01 (0x03, 0x09, ...) makes the
\* simulator send nothing at all.
C6_OtherModeSilent ==
    [][ (pc = "recv" /\ rx_ret' = 1 /\ OnRequestId(rx_frame')
         /\ rx_frame'.can_dlc >= 2 /\ rx_frame'.data[2] # 1)
        => sent' = sent ]_vars

C6_Witness ==
    /\ Processed
    /\ rx_frame.can_id = 2015 /\ rx_frame.can_dlc = 3
    /\ rx_frame.data[2] = 9
    /\ Responses = << >>

\* C7: a received frame on any other identifier than 0x7DF / 0x7E0 is
\* ignored: nothing is sent, the vehicle state and the four last-fire
\* timestamps keep their values and the loop goes on as usual.
C7_OtherIdIgnored ==
    [][ (pc = "recv" /\ rx_ret' = 1 /\ ~OnRequestId(rx_frame'))
        => (sent' = sent /\ vehicle' = vehicle /\ timers' = timers
            /\ pc' = "sleep" /\ running' = running) ]_vars

C7_Witness ==
    /\ Processed
    /\ rx_frame.can_id = 2024 /\ rx_frame.can_dlc = 8
    /\ rx_frame.data[2] = 1
    /\ Responses = << >>

\* C8: in every iteration the number of frames handed to can_send on 0x7E8
\* is 0 until a frame has been read, and afterwards 1 if the frame read is a
\* valid Mode 01 request and 0 otherwise.
C8_OneResponsePerRequest ==
    /\ pc \in {"start", "exit1", "tick", "sched", "recv"} => Responses = << >>
    /\ pc \in {"sleep", "loop", "exit0"} =>
          Len(Responses) = IF rx_ret = 1 /\ ValidMode01(rx_frame) THEN 1 ELSE 0
    /\ \A i \in 1..Len(sent) :
          sent[i].can_id = 2024 => (i = Len(sent) /\ rx_ret = 1)

C8_Witness ==
    /\ pc = "loop"
    /\ rx_ret = 1 /\ ValidMode01(rx_frame) /\ rx_frame.data[3] = 12
    /\ Len(sent) > 1
    /\ Len(Responses) = 1 /\ Responses[1].ok

\* C9: the response to PID 0x0C for rpm = r in the declared range is
\* [0x04, 0x41, 0x0C, hi, lo] with 256*hi + lo the whole number of quarter
\* rpm in r; rpm = 2000 gives [0x04, 0x41, 0x0C, 0x1F, 0x40].
C9_RpmResponse ==
    (pc = "done" /\ rx_ret = 1 /\ rx_frame.data[3] = 12
        /\ vehicle.rpm >= 0 /\ vehicle.rpm <= FloatLit(1638375, 100))
    => /\ Len(sent) = 1
       /\ sent[1].can_id = 2024 /\ sent[1].can_dlc = 5
       /\ sent[1].data[1] = 4 /\ sent[1].data[2] = 65 /\ sent[1].data[3] = 12
       /\ LET raw == 256 * sent[1].data[4] + sent[1].data[5]
          IN /\ FloatOfInt(raw) <= FloatMul(vehicle.rpm, Lit.f4)
             /\ FloatMul(vehicle.rpm, Lit.f4) < FloatOfInt(raw + 1)
       /\ vehicle.rpm = FloatOfInt(2000) => sent[1].data = << 4, 65, 12, 31, 64, 0, 0, 0 >>

C9_Witness ==
    /\ pc = "done" /\ rx_ret = 1 /\ rx_frame.data[3] = 12
    /\ vehicle.rpm = FloatOfInt(2000)
    /\ sent[1].data[4] = 31 /\ sent[1].data[5] = 64

\* C10: after every tick each physical field is within its declared range.
C10_FieldsInRange ==
    /\ vehicle.rpm >= 0 /\ vehicle.rpm <= FloatLit(1638375, 100)
    /\ vehicle.coolant_temp >= -Lit.f40 /\ vehicle.coolant_temp <= FloatOfInt(215)
    /\ vehicle.intake_temp >= -Lit.f40 /\ vehicle.intake_temp <= FloatOfInt(215)
    /\ vehicle.trans_temp >= -Lit.f40 /\ vehicle.trans_temp <= FloatOfInt(215)
    /\ vehicle.throttle >= 0 /\ vehicle.throttle <= Lit.f100
    /\ vehicle.engine_load >= 0 /\ vehicle.engine_load <= Lit.f100
    /\ vehicle.fuel_level >= 0 /\ vehicle.fuel_level <= Lit.f100
    /\ vehicle.maf >= 0 /\ vehicle.maf <= FloatLit(65535, 100)
    /\ vehicle.vehicle_speed >= 0 /\ vehicle.vehicle_speed <= Lit.f255
    /\ vehicle.gear \in 0..7

\* a tick of a later cycle: Idle again, with fuel used up since the start
C10_Witness ==
    /\ SimTimeMs(vehicle.sim_time) > 60000
    /\ Phase(fmodf(vehicle.sim_time, Lit.f60)) = "Idle"
    /\ vehicle.rpm < Lit.f800
    /\ vehicle.fuel_level < FloatLit(745, 10)

\* C11: the odometer never decreases: a tick adds exactly
\* trunc(vehicle_speed * dt / 3600) of the speed just computed, which is not
\* negative, and every other step leaves the odometer as it is.
C11_OdometerStep ==
    [][ IF pc = "tick"
        THEN /\ vehicle'.odometer =
                  vehicle.odometer
                    + FloatTrunc(FloatDiv(FloatMul(vehicle'.vehicle_speed, Lit.f0_001),
                                          Lit.f3600))
             /\ vehicle'.odometer >= vehicle.odometer
        ELSE vehicle'.odometer = vehicle.odometer ]_vars

\* a tick at full speed (end of Accelerate) has been taken and a request
\* has been answered since
C11_Witness ==
    /\ pc = "loop"
    /\ rx_ret = 1
    /\ vehicle.vehicle_speed > FloatOfInt(119)
    /\ vehicle.odometer = VehicleInit.odometer

\* the phase update_simulation last selected
PhaseOf(v) == Phase(fmodf(v.sim_time, Lit.f60))

CurrentPhase == PhaseOf(vehicle)

NextPhase(ph) ==
    CASE ph = "Idle" -> "Accelerate"
      [] ph = "Accelerate" -> "Cruise"
      [] ph = "Cruise" -> "Decelerate"
      [] ph = "Decelerate" -> "Idle"

\* the phases follow each other in the cyclic order, none skipped
PhaseOrder == [][PhaseOf(vehicle') \in {CurrentPhase, NextPhase(CurrentPhase)}]_vars

\* C12 (as claimed): the driving cycle has no terminal state: no tick of the
\* main loop leaves the vehicle state as it found it.  update_simulation
\* computes the new state from the old one alone, so a tick that changes
\* nothing is followed by ticks that change nothing: the state is terminal,
\* the phase it is in is never left and the other phases are not entered
\* again, however long the loop keeps ticking.
C12_NoTerminalState ==
    [][pc = "tick" => vehicle' # vehicle]_vars

\* what the model shows instead: once sim_time is 32768.0f every tick leaves
\* the vehicle state unchanged, in Idle
StalledForGood ==
    [][ (pc = "tick" /\ vehicle.sim_time = 1191182336)
        => (vehicle' = vehicle /\ CurrentPhase = "Idle") ]_vars

\* number of can_send calls of the current iteration on identifier id
SentCount(id) == Len(SelectSeq(sent, LAMBDA x : x.can_id = id))

\* one message of the scheduling pass: a frame on id is sent exactly when
\* now - last >= period, and last becomes now exactly then
PassRule(id, last, period) ==
    /\ SentCount(id)' = IF now - last >= period THEN 1 ELSE 0
    /\ last' = IF now - last >= period THEN now ELSE last

\* C13: a scheduling pass works on the one clock value read at its start; for
\* each of the four broadcast messages a frame is sent if and only if
\* now - last_fire >= period, and last_fire is now afterwards: at most one
\* frame per message and pass, and a send is at least one period after the
\* send before it (whose time last_fire holds).
C13_ScheduleRule ==
    [][ pc = "sched" /\ pc' = "recv" =>
          /\ now' = now
          /\ sent = << >>
          /\ PassRule(CAN_ID_ENGINE_DATA_1, last_engine1, 10)
          /\ PassRule(CAN_ID_ENGINE_DATA_2, last_engine2, 100)
          /\ PassRule(CAN_ID_TRANS_DATA, last_trans, 50)
          /\ PassRule(CAN_ID_BCM_DATA, last_bcm, 100) ]_vars

\* the third pass, 20..29 ms after the start, sends Engine-1 as the second
\* pass (10 or 11 ms after the start) did, and no other message
C13_Witness ==
    /\ pc = "recv"
    /\ SentCount(CAN_ID_ENGINE_DATA_1) = 1
    /\ Len(sent) = 1
    /\ last_engine1 = now
    /\ last_engine2 = last_trans /\ last_trans = last_bcm
    /\ now - last_bcm \in 20..29

\* a pass at least two periods after the last fire of id sends one frame of it
LatePass(id, last, period) ==
    now - last >= 2 * period => SentCount(id)' = SentCount(id) + 1

\* since the first pass of the window, at most one frame of id per period
\* begun since then
OnePerPeriod(id, period) ==
    SentCount(id) <= 1 + (clock - WindowStart) \div period

\* C14: the scheduler is catch-up-free: a pass that comes k >= 2 periods
\* after a message's last fire sends exactly one frame of it, and the missed
\* periods are never made up: no further frame of the message before a full
\* period has passed since that pass, at most one per period from then on.
C14_NoCatchUp ==
    /\ [][ pc = "sched" /\ pc' = "recv" =>
             /\ LatePass(CAN_ID_ENGINE_DATA_1, last_engine1, 10)
             /\ LatePass(CAN_ID_ENGINE_DATA_2, last_engine2, 100)
             /\ LatePass(CAN_ID_TRANS_DATA, last_trans, 50)
             /\ LatePass(CAN_ID_BCM_DATA, last_bcm, 100) ]_vars
    /\ [](/\ OnePerPeriod(CAN_ID_ENGINE_DATA_1, 10)
          /\ OnePerPeriod(CAN_ID_ENGINE_DATA_2, 100)
          /\ OnePerPeriod(CAN_ID_TRANS_DATA, 50)
          /\ OnePerPeriod(CAN_ID_BCM_DATA, 100))

\* the first pass came 250 ms after the start (25 Engine-1 periods, 5
\* Transmission periods, 2 of Engine-2 and Body) and sent one frame of each;
\* nine passes later nothing has been added
C14_Witness ==
    /\ pc = "recv"
    /\ clock = WindowStart + 9
    /\ Len(sent) = 4
    /\ SentCount(CAN_ID_ENGINE_DATA_1) = 1
    /\ SentCount(CAN_ID_ENGINE_DATA_2) = 1
    /\ last_engine1 = WindowStart

\* C15: over a 1000 ms window with a scheduling pass every 1 ms, Engine-1
\* (0x100) is sent at least 99 and at most 101 times and Transmission
\* (0x200) at least 19 and at most 21 times.
C15_WindowCounts ==
    clock = WindowStart + 1000 =>
        /\ SentCount(CAN_ID_ENGINE_DATA_1) \in 99..101
        /\ SentCount(CAN_ID_TRANS_DATA) \in 19..21

\* the window that opens at the start of the program has run its 1000
\* passes: 99 Engine-1 frames and 19 Transmission frames
C15_Witness ==
    /\ pc = "loop"
    /\ clock = WindowStart + 1000
    /\ SentCount(CAN_ID_ENGINE_DATA_1) = 99
    /\ SentCount(CAN_ID_TRANS_DATA) = 19

\* the step of main that runs update_simulation
TickStep == pc = "tick" /\ pc' = "sched"

\* the frames of s on the broadcast identifiers
Broadcasts(s) == SelectSeq(s, LAMBDA x : x.can_id \in {CAN_ID_ENGINE_DATA_1,
                     CAN_ID_ENGINE_DATA_2, CAN_ID_TRANS_DATA, CAN_ID_BCM_DATA})

\* C16: in every iteration of the main loop the state is advanced exactly
\* once (sim_time by one dt) before any frame of the iteration is encoded,
\* no other step changes the state, the broadcasts are encoded next and a
\* diagnostic response after them, from the state the broadcasts were
\* encoded from: the RPM bytes of a PID 0x0C response equal those of the
\* Engine-1 frame of the same iteration.
C16_TickBroadcastRespond ==
    /\ [][ /\ TickStep => /\ vehicle'.sim_time = FloatAdd(vehicle.sim_time, Lit.f0_001)
                           /\ sent = << >> /\ sent' = << >>
           /\ ~TickStep => vehicle' = vehicle
           /\ (pc = "sched" /\ pc' = "recv") => Broadcasts(sent') = sent'
           /\ (pc = "recv" /\ pc' = "sleep") =>
                 /\ Broadcasts(sent) = sent
                 /\ Len(sent') >= Len(sent)
                 /\ SubSeq(sent', 1, Len(sent)) = sent
                 /\ \A i \in (Len(sent) + 1)..Len(sent') :
                       sent'[i].can_id = CAN_ID_OBD_RESP_ENGINE ]_vars
    /\ [](\A i \in 1..Len(sent), j \in 1..Len(sent) :
            (/\ sent[i].can_id = CAN_ID_ENGINE_DATA_1
             /\ sent[j].can_id = CAN_ID_OBD_RESP_ENGINE
             /\ sent[j].data[2] = 65 /\ sent[j].data[3] = 12)
            => /\ i < j
               /\ sent[j].data[4] = sent[i].data[1]
               /\ sent[j].data[5] = sent[i].data[2])

\* the third iteration sent the Engine-1 frame and then answered a PID 0x0C
\* request; both carry the raw RPM 3201 of the state after the third tick
C16_Witness ==
    /\ pc = "sleep"
    /\ Len(sent) = 2
    /\ sent[1].can_id = CAN_ID_ENGINE_DATA_1
    /\ sent[2].can_id = CAN_ID_OBD_RESP_ENGINE /\ sent[2].data[3] = 12
    /\ sent[1].data[1] * 256 + sent[1].data[2] = 3201

\* every field of the vehicle state is within its declared range
InDeclaredRange(v) ==
    /\ v.rpm >= 0 /\ v.rpm <= FloatLit(1638375, 100)
    /\ v.coolant_temp >= -Lit.f40 /\ v.coolant_temp <= FloatOfInt(215)
    /\ v.trans_temp >= -Lit.f40 /\ v.trans_temp <= FloatOfInt(215)
    /\ v.throttle >= 0 /\ v.throttle <= Lit.f100
    /\ v.engine_load >= 0 /\ v.engine_load <= Lit.f100
    /\ v.fuel_level >= 0 /\ v.fuel_level <= Lit.f100
    /\ v.maf >= 0 /\ v.maf <= FloatLit(65535, 100)
    /\ v.vehicle_speed >= 0 /\ v.vehicle_speed <= Lit.f255
    /\ v.gear \in 0..7
    /\ v.odometer >= 0

\* a and b are no more than step apart (the binary32 difference is compared)
Within(a, b, step) == Abs(FloatSub(a, b)) <= step

\* the quantization step 100/255 of the one-byte percentages
PercentStep == FloatDiv(Lit.f100, Lit.f255)

\* the four broadcast frames have been encoded from the state
Encoded ==
    /\ pc = "done"
    /\ Len(sent) = 4
    /\ sent[1].can_id = CAN_ID_ENGINE_DATA_1
    /\ sent[3].can_id = CAN_ID_TRANS_DATA
    /\ sent[4].can_id = CAN_ID_BCM_DATA

\* the fields of an Engine-1 payload d read back against the state v
Engine1RoundTrip(d, v) ==
    /\ Within(ENGINE1_GET_RPM(d), v.rpm, Lit.f0_25)
    /\ Within(ENGINE1_GET_MAF(d), v.maf, Lit.f0_01)
    /\ Within(ENGINE1_GET_THROTTLE(d), v.throttle, PercentStep)
    /\ Within(Percent255(d[7]), v.engine_load, PercentStep)
    /\ Within(FloatOfInt(ENGINE1_GET_COOLANT(d)), v.coolant_temp, Lit.f1)

\* the fields of a transmission payload d read back against the state v
TransRoundTrip(d, v) ==
    /\ Within(FloatOfInt(TRANS_GET_FLUID_TEMP(d)), v.trans_temp, Lit.f1)
    /\ Within(FloatOfInt(TRANS_GET_OUTPUT_RPM(d)), v.vehicle_speed, Lit.f1)
    /\ TRANS_GET_GEAR(d) = v.gear

\* the fields of a body-control payload d read back against the state v
BcmRoundTrip(d, v) ==
    /\ Within(Percent255(d[1]), v.fuel_level, PercentStep)
    /\ BcmOdometer(d) = v.odometer

Rank(p) ==
    CASE p = "start" -> 6
      [] p = "tick" -> 5
      [] p = "sched" -> 4
      [] p = "recv" -> 3
      [] p = "sleep" -> 2
      [] p = "loop" -> 1
      [] OTHER -> 0

\* main is inside the loop or at its test
InLoop == pc \in {"tick", "sched", "recv", "sleep", "loop"}

\* C19: shutdown is cooperative and always completes: once the handler has
\* cleared running, the flag stays cleared, the iteration in progress is
\* finished step by step (each step can be taken and leads to the next one;
\* at "tick" and "sched" the steps are update_simulation and the broadcast
\* pass, which no condition guards),
\* the loop test then starts no further iteration (no tick, no frame) but
\* closes the socket and main returns 0.
C19_CooperativeShutdown ==
    /\ [][ (running = 0 /\ InLoop) =>
             /\ running' = 0
             /\ Rank(pc') = Rank(pc) - 1
             /\ pc # "loop" => sock' = "open"
             /\ pc = "loop" => /\ pc' = "exit0" /\ sock' = "closed"
                               /\ vehicle' = vehicle /\ sent' = sent ]_vars
    /\ []((running = 0 /\ InLoop) => (pc \in {"tick", "sched"} \/ ENABLED Next))
    /\ [](pc = "exit0" => running = 0 /\ sock = "closed")

\* the signal came during an iteration that had sent frames; main has
\* finished it and returned 0
C19_Witness ==
    /\ pc = "exit0"
    /\ running = 0
    /\ sock = "closed"
    /\ Len(sent) >= 1
    /\ vehicle.sim_time # 0

\* C20: when can_socket_open fails (socket, interface lookup or bind), main
\* returns 1 at once: the step that leaves the start either opens the
\* channel and enters the loop or ends the program with the socket not open
\* (closed if it had been created), nothing follows the exit, and no tick
\* has run, no frame was sent and the timing was never initialised.
C20_OpenFailureExits ==
    /\ [][ /\ (pc = "start" /\ pc' # "start") =>
                 \/ pc' = "loop" /\ sock' = "open"
                 \/ pc' = "exit1" /\ sock' \in {"none", "closed"}
           /\ pc # "exit1" ]_vars
    /\ [](pc = "exit1" => /\ sock \in {"none", "closed"}
                          /\ vehicle = VehicleInit
                          /\ sent = << >>
                          /\ now = 0 /\ last_engine1 = 0)

\* bind or the interface lookup failed: the socket that had been created is
\* closed and main has returned 1
C20_Witness ==
    /\ pc = "exit1"
    /\ sock = "closed"
    /\ vehicle = VehicleInit
    /\ sent = << >>

\* a can_send call of s on id whose write() failed
FailedOn(id, s) == \E i \in 1..Len(s) : s[i].can_id = id /\ ~s[i].ok

\* a broadcast whose send failed was attempted once, and its last fire is now
FailedBroadcast(id, last) ==
    FailedOn(id, sent') => SentCount(id)' = 1 /\ last' = now

\* C21: a frame whose send fails is lost.  A broadcast that fails still sets
\* the message's last-fire time to now (the next attempt is one period
\* later, by the rule of the pass); a receive step hands at most one frame to
\* can_send, the response to the frame just received, and goes on to the
\* sleep whether the write succeeded or not; no other step sends anything,
\* and the next iteration starts with nothing kept from the one before.
C21_FailedSendLost ==
    [][ /\ (pc = "sched" /\ pc' = "recv") =>
              /\ FailedBroadcast(CAN_ID_ENGINE_DATA_1, last_engine1)
              /\ FailedBroadcast(CAN_ID_ENGINE_DATA_2, last_engine2)
              /\ FailedBroadcast(CAN_ID_TRANS_DATA, last_trans)
              /\ FailedBroadcast(CAN_ID_BCM_DATA, last_bcm)
        /\ (pc = "recv" /\ pc' # pc) =>
              /\ pc' = "sleep"
              /\ \/ rx_ret' <= 0 /\ sent' = sent
                 \/ /\ rx_ret' = 1
                    /\ \E u \in ConvKinds, ok \in BOOLEAN :
                          sent' = sent \o process_obd2_request(vehicle, rx_frame', u, ok)
                    /\ Len(sent') <= Len(sent) + 1
        /\ (pc = "sleep" /\ pc' # pc) => pc' = "loop" /\ sent' = sent
        /\ (pc = "loop" /\ pc' = "tick") => sent' = << >>
        /\ pc = "tick" => sent' = sent ]_vars

\* the Engine-1 frame of a pass and the response to the request received
\* after it were both refused by write(); the pass has set last_engine1
C21_Witness ==
    /\ pc = "sleep"
    /\ Len(sent) = 2
    /\ FailedOn(CAN_ID_ENGINE_DATA_1, sent)
    /\ FailedOn(CAN_ID_OBD_RESP_ENGINE, sent)
    /\ last_engine1 = now

\* C22: the vehicle state has a single writer: a step that changes any field
\* of it is the tick, and the new state is update_simulation of the old one;
\* the broadcast pass, the receive step (no frame, a failed read, a frame of
\* any kind: a valid, a malformed or an unsupported request, other traffic),
\* the sleep, the loop test and the signal leave every field as it was.
C22_SingleWriter ==
    [][ /\ vehicle' # vehicle =>
              /\ pc = "tick" /\ pc' = "sched"
              /\ vehicle' = update_simulation(vehicle)
        /\ (pc \in {"sched", "recv", "sleep", "loop", "start"}) =>
              \A k \in DOMAIN vehicle : vehicle'[k] = vehicle[k] ]_vars

\* a pass has broadcast Engine-1 and a request for an unsupported PID was
\* answered negatively; the state is still the one of the third tick
C22_Witness ==
    /\ pc = "sleep"
    /\ Len(sent) = 2
    /\ sent[1].can_id = CAN_ID_ENGINE_DATA_1
    /\ sent[2].can_id = CAN_ID_OBD_RESP_ENGINE /\ sent[2].data[2] = 127
    /\ vehicle = update_simulation(update_simulation(update_simulation(VehicleInit)))

\* the four broadcast frames of a state within the declared ranges have
\* been encoded and read by the publisher and the console
BroadcastRead ==
    /\ Encoded
    /\ sent[2].can_id = CAN_ID_ENGINE_DATA_2
    /\ InDeclaredRange(vehicle)

\* the fields the readers take from the bytes the simulator put them in
\* (rpm, fuel level, and the coolant temperature while it fits an int8_t) agree
ReadersAgreeOnRpmAndFuel ==
    BroadcastRead =>
        \A ts \in ReadTimes(Len(sent)) :
        LET tv == TelemetryAfter(TelemetryInit, sent, ts)
            cv == ConsoleAfter(ConsoleInit, sent)
        IN /\ Within(FloatOfInt(tv.rpm), vehicle.rpm, Lit.f1)
           /\ Within(FloatOfInt(cv.rpm), vehicle.rpm, Lit.f1)
           /\ Within(FloatOfInt(tv.fuel_level), vehicle.fuel_level, Lit.f1)
           /\ Within(FloatOfInt(cv.fuel), vehicle.fuel_level, Lit.f1)
           /\ Within(FloatOfInt(cv.temp), vehicle.coolant_temp, Lit.f1)
           /\ vehicle.coolant_temp < FloatOfInt(128) =>
                 Within(FloatOfInt(tv.coolant_temp), vehicle.coolant_temp, Lit.f1)

\* C23: the publisher's and the console's decoders read every field from
\* the bytes the simulator wrote it to: after the ENGINE_1, ENGINE_2, TRANS
\* and BCM frames of a state their rpm, coolant temperature, engine load,
\* throttle, speed, odometer and fuel level are the simulator's, within one
\* unit (the odometer exactly).
C23_ReadersDecodeSame ==
    BroadcastRead =>
        \A ts \in ReadTimes(Len(sent)) :
        LET tv == TelemetryAfter(TelemetryInit, sent, ts)
            cv == ConsoleAfter(ConsoleInit, sent)
        IN /\ Within(FloatOfInt(tv.rpm), vehicle.rpm, Lit.f1)
           /\ Within(FloatOfInt(tv.coolant_temp), vehicle.coolant_temp, Lit.f1)
           /\ Within(FloatOfInt(tv.engine_load), vehicle.engine_load, Lit.f1)
           /\ Within(FloatOfInt(tv.throttle), vehicle.throttle, Lit.f1)
           /\ Within(FloatOfInt(tv.speed), vehicle.vehicle_speed, Lit.f1)
           /\ tv.odometer = vehicle.odometer
           /\ Within(FloatOfInt(tv.fuel_level), vehicle.fuel_level, Lit.f1)
           /\ Within(FloatOfInt(cv.rpm), vehicle.rpm, Lit.f1)
           /\ Within(FloatOfInt(cv.temp), vehicle.coolant_temp, Lit.f1)
           /\ Within(FloatOfInt(cv.load), vehicle.engine_load, Lit.f1)
           /\ Within(FloatOfInt(cv.throttle), vehicle.throttle, Lit.f1)
           /\ Within(FloatOfInt(cv.speed), vehicle.vehicle_speed, Lit.f1)
           /\ Within(FloatOfInt(cv.fuel), vehicle.fuel_level, Lit.f1)

\* the tick enters a new phase at t = 10, t = 25 or t = 45 of the cycle
EntersPhase ==
    /\ PhaseOf(vehicle') # CurrentPhase
    /\ PhaseOf(vehicle') \in {"Accelerate", "Cruise", "Decelerate"}

\* C24: rpm and vehicle_speed are continuous across the phase boundaries:
\* the first tick of the new phase changes rpm by at most 200 and
\* vehicle_speed by at most 10 km/h.
C24_ContinuousAtBoundaries ==
    [][ EntersPhase =>
          /\ Within(vehicle'.rpm, vehicle.rpm, Lit.f200)
          /\ Within(vehicle'.vehicle_speed, vehicle.vehicle_speed, Lit.f10) ]_vars

\* the boundaries at t = 10 and t = 45 and the wrap at t = 60 do stay within
\* these deltas
ContinuousElsewhere ==
    [][ (PhaseOf(vehicle') # CurrentPhase /\ PhaseOf(vehicle') # "Cruise") =>
          /\ Within(vehicle'.rpm, vehicle.rpm, Lit.f200)
          /\ Within(vehicle'.vehicle_speed, vehicle.vehicle_speed, Lit.f10) ]_vars

\* number of refills so far: whole multiples of 50 units in sim_time * 0.01
RefillsAt(v) == FloatTrunc(FloatDiv(FloatMul(v.sim_time, Lit.f0_01), Lit.f50))

Refills == RefillsAt(vehicle)

\* C25: from one tick to the next fuel_level does not increase, except on
\* the tick at which the consumption sim_time * 0.01 passes a multiple of
\* 50: that tick takes it from just above 25 back to 75.  It is always
\* above 25 and at most 75.
C25_FuelMonotoneModuloRefill ==
    /\ [][ IF RefillsAt(vehicle') > RefillsAt(vehicle)
           THEN /\ vehicle'.fuel_level = Lit.f75
                /\ vehicle.fuel_level < FloatLit(2501, 100)
           ELSE vehicle'.fuel_level <= vehicle.fuel_level ]_vars
    /\ [](vehicle.fuel_level > Lit.f25 /\ vehicle.fuel_level <= Lit.f75)

\* the tank has been refilled once and the level has gone down again since
C25_Witness ==
    /\ Refills = 1
    /\ vehicle.fuel_level < Lit.f75
    /\ pc = "recv"

Min(a, b) == IF a < b THEN a ELSE b

Max(a, b) == IF a > b THEN a ELSE b

\* floor(5p) for p = (t - start) / 15: the whole multiples of 3 s in t - start
FloorFiveP(t, start) == Cardinality({k \in 1..5 : t >= FloatOfInt(start + 3 * k)})

\* the gear the phase rule gives at t s of the cycle
GearRule(t) ==
    CASE Phase(t) = "Idle" -> 0
      [] Phase(t) = "Accelerate" -> Min(6, 1 + FloorFiveP(t, 10))
      [] Phase(t) = "Cruise" -> 6
      [] Phase(t) = "Decelerate" -> Max(0, 6 - FloorFiveP(t, 45))

\* C26: after every tick the gear is the one of the phase rule at
\* t = sim_time mod 60: 0 in Idle, min(6, 1 + floor(5p)) in Accelerate, 6 in
\* Cruise, max(0, 6 - floor(5p)) in Decelerate.
C26_GearFollowsPhase ==
    vehicle.sim_time # 0 =>
        vehicle.gear = GearRule(fmodf(vehicle.sim_time, Lit.f60))

\* the last three seconds of Decelerate: gear 2
C26_Witness ==
    /\ pc = "recv"
    /\ CurrentPhase = "Decelerate"
    /\ SimTimeMs(vehicle.sim_time) > 57000
    /\ vehicle.gear = 2

\* the PID process_obd2_request took from the frame received
RequestedPid == IF rx_frame.can_dlc >= 3 THEN rx_frame.data[3] ELSE 0

\* a frame on 0x7E8 is well formed as the response to the frame received
WellFormed(f) ==
    /\ f.can_dlc \in 4..8
    /\ f.data[1] = f.can_dlc - 1
    /\ \A i \in 1..8 : i > f.can_dlc => f.data[i] = 0
    /\ \/ f.data[2] = 65 /\ f.data[3] = RequestedPid
       \/ f.data[2] = 127 /\ f.data[3] = rx_frame.data[2] /\ f.data[1] = 3

\* C27: every frame sent on 0x7E8 is well formed: byte 0 is the number of
\* payload bytes after it and the DLC is byte 0 + 1; byte 1 is 0x41 and
\* byte 2 the requested PID in a positive response, byte 1 is 0x7F and
\* byte 2 the mode of the request in a negative one.
C27_ResponseWellFormed ==
    \A i \in 1..Len(sent) :
        sent[i].can_id = CAN_ID_OBD_RESP_ENGINE => WellFormed(sent[i])

\* a request for PID 0x10 (MAF) was answered with [04 41 10 hi lo], DLC 5
C27_Witness ==
    /\ pc = "done"
    /\ RequestedPid = 16
    /\ Len(sent) = 1
    /\ sent[1].can_id = CAN_ID_OBD_RESP_ENGINE
    /\ sent[1].can_dlc = 5
    /\ sent[1].data[1] = 4 /\ sent[1].data[2] = 65 /\ sent[1].data[3] = 16
    /\ sent[1].data[4] * 256 + sent[1].data[5] = 5337

\* the gateway has just handled a Mode 01 request of declared length >= 2
GwMode01Handled ==
    /\ pc = "gw_update"
    /\ rx_ret = 1
    /\ rx_frame.data[1] >= 2
    /\ rx_frame.data[2] = OBD2_MODE_CURRENT_DATA

\* the PIDs build_mode01_response has a case for
GwRecognized == {0, 4, 5, 12, 13, 15, 16, 17, 32, 47}

\* C28: the gateway answers every Mode 01 request for a PID it does not
\* recognize with the negative response [03 7F 01 12] on 0x7E8.
C28_GatewayNegativeResponse ==
    (GwMode01Handled /\ rx_frame.data[3] \notin GwRecognized) =>
        /\ Len(sent) = 1
        /\ sent[1].can_id = CAN_ID_OBD_RESP_ENGINE
        /\ SubSeq(sent[1].data, 1, 4) = << 3, 127, 1, 18 >>

\* what the gateway does with such a request: it writes no frame at all
GatewayDropsUnknownPid ==
    (GwMode01Handled /\ rx_frame.data[3] \notin GwRecognized) => sent = << >>

\* a category letter P, C, B or U, a first digit 0..3 and three digits 0..9
WellFormedDtc(str) ==
    /\ str[1] \in {80, 67, 66, 85}
    /\ str[2] \in 48..51
    /\ \A i \in 3..5 : str[i] \in 48..57

\* C29: for every well-formed DTC string dtc_encode returns 0 and dtc_decode
\* of the two bytes it produced gives the same five characters back.
C29_DtcRoundTrip ==
    /\ (pc \in {"dtc_enc", "dtc_dec"} /\ WellFormedDtc(dtc.str)) => dtc.ret = 0
    /\ (pc = "dtc_dec" /\ WellFormedDtc(dtc.str)) => dtc.out = dtc.str

\* "U3999" was encoded as F9 99 and decoded back
C29_Witness ==
    /\ pc = "dtc_dec"
    /\ dtc.str = << 85, 51, 57, 57, 57 >>
    /\ dtc.ret = 0
    /\ dtc.byte1 = 249 /\ dtc.byte2 = 153
    /\ dtc.out = dtc.str

\* as WellFormedDtc, with the lower-case letters dtc_encode also takes
AcceptableDtc(str) ==
    /\ DtcCategory(str[1]) # -1
    /\ str[2] \in 48..51
    /\ \A i \in 3..5 : str[i] \in 48..57

\* C30: dtc_encode returns 0 exactly for the well-formed strings; for every
\* other string (a wrong letter, a non-digit in positions 1..4, a first
\* digit above 3) it returns -1 and leaves both output bytes as they were.
C30_DtcEncodeRejects ==
    pc \in {"dtc_enc", "dtc_dec"} =>
        IF AcceptableDtc(dtc.str)
        THEN dtc.ret = 0
        ELSE /\ dtc.ret = -1
             /\ dtc.byte1 = DtcBufferInit[1] /\ dtc.byte2 = DtcBufferInit[2]

\* the part that holds: a string with no category letter is rejected and
\* the buffers are untouched
DtcWrongLetterRejected ==
    (pc \in {"dtc_enc", "dtc_dec"} /\ DtcCategory(dtc.str[1]) = -1) =>
        /\ dtc.ret = -1
        /\ dtc.byte1 = DtcBufferInit[1] /\ dtc.byte2 = DtcBufferInit[2]

\* ------------------------------------------------------------------------
\* the last request on the bus and the frames on 0x7E8 written after it
LastRequestAt ==
    LET at == { i \in 1..Len(bus.frames) : bus.frames[i].can_id = CAN_ID_OBD_BROADCAST }
    IN CHOOSE i \in at : \A j \in at : j <= i

ResponsesToLast ==
    SelectSeq(SubSeq(bus.frames, LastRequestAt + 1, Len(bus.frames)),
              LAMBDA f : f.can_id = CAN_ID_OBD_RESP_ENGINE)

BothHandled ==
    /\ \E i \in 1..Len(bus.frames) : bus.frames[i].can_id = CAN_ID_OBD_BROADCAST
    /\ bus.ecu_q = << >> /\ bus.gw_q = << >>

\* C31: with the ECU simulator and the gateway on the same bus, a valid
\* Mode 01 request for a supported PID on 0x7DF gets exactly one response
\* frame on 0x7E8 (the ECU simulator's).
C31_OneResponseOnBus ==
    ( /\ BothHandled
      /\ bus.frames[LastRequestAt].data[3] \in SupportedPids )
    => Len(ResponsesToLast) = 1

\* what the model shows instead: a PID both services dispatch is answered
\* twice, a PID only one of them dispatches is answered by that one
BothServicesAnswer ==
    BothHandled =>
      LET pid == bus.frames[LastRequestAt].data[3]
      IN Len(ResponsesToLast)
           = (IF build_mode01_response(gw, pid).ret = 0 THEN 1 ELSE 0) + 1

\* ------------------------------------------------------------------------
\* the bit of PID p (p in 1..32 after base) in the bytes A..D of a
\* supported-PID response: the most significant bit of A is PID base + 1
BitmapBit(data, base, p) ==
    Bit(data[4 + ((p - base - 1) \div 8)], 7 - ((p - base - 1) % 8))

\* the ECU simulator's answer to PID 0x00 in the current state
EcuBitmap == handle_obd2_mode01(vehicle, OBD2_PID_SUPPORTED_01_20, "wrap", TRUE)[1].data

AnsweredRange(lo, hi) ==
    /\ pc = "done" /\ rx_ret = 1
    /\ RequestedPid \in lo..hi

\* C32: in the ECU simulator the bit of every PID 0x01..0x20 in the PID 0x00
\* response is set exactly when a request for that PID gets a positive
\* response.
C32_BitmapMatchesDispatch ==
    AnsweredRange(1, 32)
    => (BitmapBit(EcuBitmap, 0, RequestedPid) = 1 <=> sent[1].data[2] = 65)

\* what the model shows instead: bitmap and dispatch differ on 0x0B, 0x0E
\* (advertised, answered negatively) and 0x10 (answered, not advertised)
EcuBitmapOffByOne ==
    AnsweredRange(1, 32)
    => ( (BitmapBit(EcuBitmap, 0, RequestedPid) = 1 <=> sent[1].data[2] = 65)
         <=> RequestedPid \notin {11, 14, 16} )

\* ------------------------------------------------------------------------
\* the gateway's supported-PID response that covers PID p
GwBitmap(p) ==
    build_mode01_response(gw, IF p <= 32 THEN OBD2_PID_SUPPORTED_01_20
                                         ELSE OBD2_PID_SUPPORTED_21_40).data

GwBitmapBit(p) == BitmapBit(GwBitmap(p), IF p <= 32 THEN 0 ELSE 32, p)

\* C33: in the gateway the bit of every PID 0x01..0x20 in the PID 0x00
\* response, and of every PID 0x21..0x40 in the PID 0x20 response, is set
\* exactly when build_mode01_response returns a response for that PID.
C33_GwBitmapsMatchDispatch ==
    (GwMode01Handled /\ rx_frame.data[3] \in 1..64)
    => (GwBitmapBit(rx_frame.data[3]) = 1 <=> Len(sent) = 1)

\* what the model shows instead: bitmaps and dispatch differ on 0x0B and
\* 0x32 (advertised, no response) and on 0x0F, 0x10, 0x2F (answered, not
\* advertised)
GwBitmapsDisagree ==
    (GwMode01Handled /\ rx_frame.data[3] \in 1..64)
    => ( (GwBitmapBit(rx_frame.data[3]) = 1 <=> Len(sent) = 1)
         <=> rx_frame.data[3] \notin {11, 15, 16, 47, 50} )

\* ------------------------------------------------------------------------
\* C34: with dt = 0.001 s the truncated odometer increment is 0 at every
\* speed the simulation reaches, so the odometer keeps its initial value
\* 45231 and a BCM frame encoded from any reachable state carries the
\* bytes of 45231.
C34_OdometerConstant ==
    /\ vehicle.vehicle_speed <= Lit.f255
    /\ OdometerStep(vehicle.vehicle_speed) = 0
    /\ vehicle.odometer = VehicleInit.odometer
    /\ \A u \in ConvKinds :
         SubSeq(send_bcm_data(vehicle, u, TRUE).data, 2, 5) = << 0, 0, 176, 175 >>

\* the driving cycle has been at motorway speed for fifteen seconds
C34_Witness ==
    /\ pc = "recv"
    /\ SimTimeMs(vehicle.sim_time) > 40000
    /\ vehicle.vehicle_speed >= Lit.f100
    /\ vehicle.odometer = 45231

\* ------------------------------------------------------------------------
\* C35: between two consecutive ticks the gear changes by at most one step,
\* across the phase boundaries and the wrap of the 60 s cycle included.
C35_GearStepsByOne ==
    [][ pc = "tick" => Abs(vehicle'.gear - vehicle.gear) <= 1 ]_vars

\* what the model shows instead: the gear moves by one step at most except
\* on the tick that enters Cruise (5 to 6 is one step) and on the tick that
\* wraps from Decelerate to Idle, where it drops from 2 to 0
GearJumpsAtWrap ==
    [][ pc = "tick" =>
          \/ Abs(vehicle'.gear - vehicle.gear) <= 1
          \/ /\ vehicle.gear = 2 /\ vehicle'.gear = 0
             /\ SimTimeMs(vehicle'.sim_time) % 60000
                  < SimTimeMs(vehicle.sim_time) % 60000 ]_vars

\* ------------------------------------------------------------------------
\* C36: Engine-2 and Body, which share the period of 100 ms, stay in
\* lock-step: their last-fire timestamps are equal in every state, a pass
\* sends a frame on 0x101 exactly when it sends one on 0x300, and the
\* frames of a pass go out in the order 0x100, 0x101, 0x200, 0x300.
C36_LockStep ==
    /\ last_engine2 = last_bcm
    /\ SentCount(CAN_ID_ENGINE_DATA_2) = SentCount(CAN_ID_BCM_DATA)
    /\ \A i, j \in 1..Len(sent) : i < j => sent[i].can_id < sent[j].can_id

\* a pass 100 ms or more after the start has sent all four frames while
\* the write of the Engine-2 frame failed and that of the Body frame did not
C36_Witness ==
    /\ pc = "recv"
    /\ Len(sent) = 4
    /\ sent[2].can_id = CAN_ID_ENGINE_DATA_2 /\ ~sent[2].ok
    /\ sent[4].can_id = CAN_ID_BCM_DATA /\ sent[4].ok
    /\ last_engine2 = now /\ last_bcm = now /\ now > 0

\* ------------------------------------------------------------------------
\* C37: a Mode 01 request with exactly 2 payload bytes (no PID byte) is
\* handled as a request for PID 0x00: it is answered with the supported-PID
\* bitmap [06 41 00 18 3E 80 00], DLC 7, whatever the third byte of the
\* frame buffer holds.
C37_TwoByteRequestIsPid0 ==
    (Processed /\ ValidMode01(rx_frame) /\ rx_frame.can_dlc = 2)
    => /\ Len(Responses) = 1
       /\ Responses[1].can_dlc = 7
       /\ Responses[1].data = << 6, 65, 0, 24, 62, 128, 0, 0 >>

\* a frame [02 01] with DLC 2 and 0x0C left in the third byte of its
\* buffer was answered with the bitmap
C37_Witness ==
    /\ Processed
    /\ rx_frame.can_id = CAN_ID_OBD_BROADCAST /\ rx_frame.can_dlc = 2
    /\ SubSeq(rx_frame.data, 1, 3) = << 2, 1, 12 >>
    /\ Len(Responses) = 1 /\ Responses[1].ok
    /\ Responses[1].data[3] = 0 /\ Responses[1].data[4] = 24

\* ------------------------------------------------------------------------
\* C38: the log directory never holds more than MAX_LOG_FILES (5) files
\* can-N.log, whatever frames are logged, whatever rotations happen and
\* however often the logger is started again.
C38_AtMostFiveFiles == Cardinality(logger.dir) <= MAX_LOG_FILES

\* what the model shows instead: within one run the limit holds, and the
\* files above it are the ones earlier runs left
OneRunKeepsFive ==
    Cardinality({ k \in logger.dir : k <= logger.current_file_num }) <= MAX_LOG_FILES

\* C39: when the fopen of a rotation fails, log_frame does not write
\* through the null handle: it skips the frame, and drops every later
\* frame while no file is open.
C39_NoWriteThroughNull == logger.wrote # "null"

\* what the model shows instead: only the frame that triggered the failed
\* rotation goes to fprintf with a null handle; every later one is dropped
LaterFramesDropped ==
    [][ (pc = "log_read" /\ logger.log_file = "null" /\ logger' # logger
         /\ pc' # "log_exit0")
        => logger' = [logger EXCEPT !.wrote = "dropped"] ]_vars

====
